---- MODULE Spec2Model ----
(***************************************************************************)
(* Model of the kubeadm workflow phase runner (package workflow): the      *)
(* declared phase tree, its flattening into phaseRunners, the run-flag     *)
(* computation, the lazily created shared RunData and the Run loop.        *)
(*                                                                         *)
(* Strings are modelled as sequences of one-character strings so that      *)
(* cleanName and the "/"-join of generatedName are computed, not assumed.  *)
(***************************************************************************)
EXTENDS Integers, Sequences, FiniteSets, TLC

VARIABLES Phases, Options, runDataInitializer, runData, phaseRunners,
          pc, phaseRunFlags, data, idx, lastCall, held, invoked, heap,
          factoryCalls, nCalls,
          commands, subcommands, helpLines, bound, exits, checked,
          isSocket, detected, client, dryRun, created,
          cleaned, joinShown,
          forceReset, stdin, inputRead,
          cfgCertificatesDir, certificatesDir, certCalls,
          Endpoints, memberAdds, etcdCalls,
          nodeExists, node, requested, marked,
          clusterNode, bootstrapConf, kubeletRunning, joinCalls

\* the Runner, the position of Run and the record of what was called
runnerVars == <<Phases, Options, runDataInitializer, runData, phaseRunners,
                pc, phaseRunFlags, data, idx, lastCall, held, invoked, heap,
                factoryCalls, nCalls>>

\* the commands made by BindToCommand (commands, the map subcommands from
\* generatedName to command, the lines of the help text put in cmd.Long,
\* bound: how BindToCommand ended)
cliVars == <<commands, subcommands, helpLines, bound>>

\* the calls of the error handler made by CheckErr, the errors CheckErr
\* was given
exitVars == <<exits, checked>>

\* the sockets that exist on the host and the answers of the calls of
\* DetectCRISocket
criVars == <<isSocket, detected>>

\* initData: the cached client, the dry-run mode, the creations of a
\* client tried so far
clientVars == <<client, dryRun, created>>

\* what the commands do after the workflow: the directories whose contents
\* reset has deleted, whether init has printed the join command
postVars == <<cleaned, joinShown>>

\* reset: the --force flag, what the user types on the input stream, whether
\* the input stream has been read from
resetVars == <<forceReset, stdin, inputRead>>

\* init: CertificatesDir of the shared configuration, the certificates
\* directory the user asked for (initData.certificatesDir), the calls of
\* the functions that create certificates and kubeconfig files
certVars == <<cfgCertificatesDir, certificatesDir, certCalls>>

\* the etcd Client: its Endpoints, the number of MemberAdd requests sent to
\* the cluster, the calls of its methods that have returned
etcdVars == <<Endpoints, memberAdds, etcdCalls>>

\* mark-control-plane: whether the kubelet has registered the node, the
\* node (its labels and taints), the taints asked for, the applications of
\* markControlPlaneNode
markVars == <<nodeExists, node, requested, marked>>

\* join kubelet-start: the node of the same name in the cluster, whether
\* bootstrap-kubelet.conf is on disk, whether the kubelet runs, the
\* executions of the phase that have returned
joinVars == <<clusterNode, bootstrapConf, kubeletRunning, joinCalls>>

\* what the operations of the Runner itself leave alone
hostVars == <<cliVars, exitVars, criVars, clientVars, postVars, resetVars, certVars, etcdVars, markVars, joinVars>>

vars == <<runnerVars, hostVars>>

\* kubeadmapiv1.DefaultCertificatesDir and the other directories of the model
DefaultCertificatesDir == "/etc/kubernetes/pki"
CustomCertificatesDir == "/srv/pki"
dryRunDir == "/tmp/kubeadm-init-dryrun"

\* ------------------------------------------------------------------ bounds
\* largest number of phase descriptors (nested ones included) in a workflow
MaxPhases == 3
\* largest number of entries in Options.FilterPhases given to the run-flag
\* computation
MaxFilter == 2
\* largest number of entries in Options.SkipPhases given to the run-flag
\* computation
MaxSkip == 1
\* largest number of InitData / Run calls made on one Runner
MaxCalls == 3
\* largest number of phase descriptors in a workflow bound to a command
MaxCli == 3
\* largest number of phase descriptors in a workflow given to the
\* flattening for its paths: enough for two phases at the fourth level
MaxDeep == 5

\* ------------------------------------------------------------- strings
phaseSeparator == <<"/">>

\* strings.ToLower on one character of the alphabet used by the model
ToLowerChar(c) ==
    CASE c = "A" -> "a"
      [] c = "B" -> "b"
      [] c = "C" -> "c"
      [] c = "Y" -> "y"
      [] OTHER -> c

ToLower(s) == [i \in 1..Len(s) |-> ToLowerChar(s[i])]

\* strings.Index(s, " "): 0-based position of the first space, -1 if none
IndexSpace(s) ==
    IF \E i \in 1..Len(s) : s[i] = " "
    THEN (CHOOSE i \in 1..Len(s) : s[i] = " " /\ \A j \in 1..(i-1) : s[j] # " ") - 1
    ELSE -1

\* a plausible slip: the name is cut at the space but not lower-cased
cleanNameNoLower(name) ==
    LET pos == IndexSpace(name)
    IN  IF pos # -1 THEN SubSeq(name, 1, pos) ELSE name

cleanName(name) ==
    LET ret == ToLower(name)
        pos == IndexSpace(ret)
    IN  IF pos # -1 THEN SubSeq(ret, 1, pos) ELSE ret

\* strings.Join of two strings with "/"
JoinName(a, b) == a \o phaseSeparator \o b

\* ------------------------------------------------- declared phase trees
\* the names given to the first, second, third ... phase of one level:
\* an upper-case name, a name followed by an argument placeholder, ...
NamePool == << <<"A">>, <<"b", " ", "x">>, <<"C">>, <<"d">>, <<"e">>,
              <<"f">>, <<"g">> >>

NameOf(i) == NamePool[((i - 1) % Len(NamePool)) + 1]

\* what a descriptor declares: Run and RunIf (set or nil), RunAllSiblings
Action      == [Run |-> TRUE,  RunIf |-> FALSE, RunAllSiblings |-> FALSE]
Conditional == [Run |-> TRUE,  RunIf |-> TRUE,  RunAllSiblings |-> FALSE]
Group       == [Run |-> FALSE, RunIf |-> FALSE, RunAllSiblings |-> FALSE]
BadMarker   == [Run |-> TRUE,  RunIf |-> FALSE, RunAllSiblings |-> TRUE]
Marker      == [Run |-> FALSE, RunIf |-> FALSE, RunAllSiblings |-> TRUE]

\* the kinds of phases of the executed workflows
PhaseKinds == {Action, Conditional, Group, BadMarker}

\* the kinds of phases of the workflows given to the run-flag computation,
\* which reads none of Run, RunIf
FlagKinds == {Action}

Phase(name, kind, hidden, children) ==
    [Name |-> name, Hidden |-> hidden, Phases |-> children,
     RunAllSiblings |-> kind.RunAllSiblings, Run |-> kind.Run, RunIf |-> kind.RunIf]

RECURSIVE PhaseCount(_), PhaseCountSeq(_, _)
PhaseCount(phase) == 1 + PhaseCountSeq(phase.Phases, 1)
PhaseCountSeq(phases, k) ==
    IF k > Len(phases) THEN 0
    ELSE PhaseCount(phases[k]) + PhaseCountSeq(phases, k + 1)

\* all phases named NameOf(i), of the given kinds, that declare at most n
\* descriptors
RECURSIVE PhaseDecls(_, _, _), ChildSeqs(_, _, _)
PhaseDecls(i, n, kinds) ==
    IF n < 1 THEN {}
    ELSE { Phase(NameOf(i), k, FALSE, cs) : k \in kinds, cs \in ChildSeqs(1, n - 1, kinds) }

\* all sequences of children, the first of them named NameOf(i), that
\* declare at most n descriptors together
ChildSeqs(i, n, kinds) ==
    {<<>>} \cup
    UNION { { <<p>> \o rest : rest \in ChildSeqs(i + 1, n - PhaseCount(p), kinds) } :
              p \in PhaseDecls(i, n, kinds) }

\* the names of the phases of the workflows given to the flattening alone:
\* an upper-case name, an upper-case name followed by an argument
\* placeholder, a name that holds the separator
TreeNames == { <<"A">>, <<"B", " ", "[", "x", "]">>, <<"a", "/", "b">> }

\* the kinds of phases of those workflows: the flattening reads only
\* RunAllSiblings
TreeKinds == {Action, Marker}

\* all phases that declare at most n descriptors, and all sequences of
\* sibling phases that declare at most n descriptors together; no two
\* siblings share a cleaned name (used holds the cleaned names taken)
RECURSIVE TreePhases(_, _), TreeSeqs(_, _)
TreePhases(n, used) ==
    IF n < 1 THEN {}
    ELSE { Phase(nm, k, FALSE, cs) :
             nm \in { x \in TreeNames : cleanName(x) \notin used },
             k \in TreeKinds, cs \in TreeSeqs(n - 1, {}) }

TreeSeqs(n, used) ==
    {<<>>} \cup
    UNION { { <<p>> \o rest :
                rest \in TreeSeqs(n - PhaseCount(p), used \cup {cleanName(p.Name)}) } :
              p \in TreePhases(n, used) }

\* ------------------------------------------------------------ flattening
\* A phaseRunner.  parent is the position of the parent's phaseRunner in the
\* list (0 for nil).  pos is not a field of the Go struct: it records where
\* the descriptor sits in the declared tree (child indexes from the top),
\* so that properties can speak about the declared order.
\* The capacity of the array that append allocates when newLen elements no
\* longer fit an array of oldCap: the doubling of Go's append for small
\* slices.
GrowCap(oldCap, newLen) == IF newLen > 2 * oldCap THEN newLen ELSE 2 * oldCap

\* append(parentRunner.selfPath, ...) within the capacity of the parent's
\* array stores the name in that array: every slice over the same array
\* that reaches the index shows the new element
StoreThrough(runners, array, at, name) ==
    [j \in 1..Len(runners) |->
        IF runners[j].array = array /\ Len(runners[j].selfPath) >= at
        THEN [runners[j] EXCEPT !.selfPath[at] = name]
        ELSE runners[j]]

\* selfPath is a Go slice: array names the array it points into (the
\* position of the phaseRunner whose creation allocated it), cap its
\* capacity, selfPath the elements seen through it.
RECURSIVE addPhaseRunner(_, _, _, _), addChildRunners(_, _, _, _, _),
          addChildRunnersToParent(_, _, _, _, _)
addPhaseRunner(runners, parentRunner, phase, pos) ==
    LET name     == cleanName(phase.Name)
        hasPar   == parentRunner # 0
        genName  == IF hasPar
                    THEN JoinName(runners[parentRunner].generatedName, name)
                    ELSE name
        use      == IF hasPar THEN phaseSeparator \o name ELSE name
        parPath  == IF hasPar THEN runners[parentRunner].selfPath ELSE <<>>
        inPlace  == hasPar /\ Len(parPath) < runners[parentRunner].cap
        selfPath == parPath \o <<name>>
        shared   == IF inPlace
                    THEN StoreThrough(runners, runners[parentRunner].array,
                                      Len(selfPath), name)
                    ELSE runners
        currentRunner ==
            [Phase |-> phase, parent |-> parentRunner,
             level |-> Len(selfPath) - 1, selfPath |-> selfPath,
             array |-> IF inPlace THEN runners[parentRunner].array
                       ELSE Len(runners) + 1,
             cap   |-> IF inPlace THEN runners[parentRunner].cap
                       ELSE IF hasPar
                            THEN GrowCap(runners[parentRunner].cap, Len(selfPath))
                            ELSE 1,
             generatedName |-> genName, use |-> use, pos |-> pos]
        added    == Append(shared, currentRunner)
    IN  addChildRunners(added, Len(added), phase.Phases, 1, pos)

\* a plausible slip: the nested phases are given the parent of the current
\* phaseRunner as their parent
addChildRunnersToParent(runners, current, children, k, pos) ==
    IF k > Len(children) THEN runners
    ELSE addChildRunnersToParent(
             addPhaseRunner(runners, runners[current].parent, children[k], Append(pos, k)),
             current, children, k + 1, pos)

\* the loop over phase.Phases at the end of addPhaseRunner
addChildRunners(runners, current, children, k, pos) ==
    IF k > Len(children) THEN runners
    ELSE addChildRunners(addPhaseRunner(runners, current, children[k], Append(pos, k)),
                         current, children, k + 1, pos)

\* a plausible slip: the phases are taken from the last to the first
RECURSIVE prepareLoopBackwards(_, _, _)
prepareLoopBackwards(runners, phases, k) ==
    IF k > Len(phases) THEN runners
    ELSE LET j == Len(phases) + 1 - k
         IN  IF phases[j].RunAllSiblings
             THEN prepareLoopBackwards(runners, phases, k + 1)
             ELSE prepareLoopBackwards(addPhaseRunner(runners, 0, phases[j], <<j>>),
                                       phases, k + 1)

\* the loop of prepareForExecution over e.Phases
RECURSIVE prepareLoop(_, _, _)
prepareLoop(runners, phases, k) ==
    IF k > Len(phases) THEN runners
    ELSE IF phases[k].RunAllSiblings
         THEN prepareLoop(runners, phases, k + 1)
         ELSE prepareLoop(addPhaseRunner(runners, 0, phases[k], <<k>>), phases, k + 1)

\* a plausible slip: the list of the previous Run is not emptied first
prepareForExecutionKeep(phases) == prepareLoop(phaseRunners, phases, 1)

\* "e.phaseRunners = []*phaseRunner{}", then the loop over e.Phases
prepareForExecution(phases) == prepareLoop(<<>>, phases, 1)

\* ------------------------------------------------------- run-flag map
\* Go maps are modelled as functions; a key absent from the domain is a
\* key absent from the map.
MapPut(m, k, v) == [x \in DOMAIN m \cup {k} |-> IF x = k THEN v ELSE m[x]]
MapGet(m, k, default) == IF k \in DOMAIN m THEN m[k] ELSE default

EmptyMap == [x \in {} |-> FALSE]

\* the inner loop of the first visitAll: register p under every ancestor
RECURSIVE registerInParents(_, _, _, _)
registerInParents(hier, runners, parent, name) ==
    IF parent = 0 THEN hier
    ELSE LET pn == runners[parent].generatedName
         IN  registerInParents(MapPut(hier, pn, Append(MapGet(hier, pn, <<>>), name)),
                               runners, runners[parent].parent, name)

\* the first visitAll of computePhaseRunFlags: <<phaseRunFlags, phaseHierarchy>>
RECURSIVE initFlags(_, _, _, _)
initFlags(runners, k, flags, hier) ==
    IF k > Len(runners) THEN <<flags, hier>>
    ELSE LET p == runners[k]
         IN  initFlags(runners, k + 1,
                       MapPut(flags, p.generatedName, TRUE),
                       registerInParents(MapPut(hier, p.generatedName, <<>>),
                                         runners, p.parent, p.generatedName))

\* a plausible slip: the nested phases of a named phase are left alone
setNone(flags, ns, k, v) == flags

\* set flags[n] to v for every n of the list ns
RECURSIVE setAll(_, _, _, _)
setAll(flags, ns, k, v) ==
    IF k > Len(ns) THEN flags
    ELSE setAll(MapPut(flags, ns[k], v), ns, k + 1, v)

\* a plausible slip: a name that is no phase is passed over in silence
RECURSIVE applyNamesLenient(_, _, _, _, _)
applyNamesLenient(flags, hier, names, k, v) ==
    IF k > Len(names) THEN [flags |-> flags, err |-> <<>>]
    ELSE IF names[k] \notin DOMAIN flags
         THEN applyNamesLenient(flags, hier, names, k + 1, v)
         ELSE applyNamesLenient(setAll(MapPut(flags, names[k], v),
                                       MapGet(hier, names[k], <<>>), 1, v),
                                hier, names, k + 1, v)

\* a plausible slip: the flags are cleared inside the loop over
\* FilterPhases, once for every name, instead of once before it
RECURSIVE applyNamesClearEach(_, _, _, _, _)
applyNamesClearEach(flags, hier, names, k, v) ==
    IF k > Len(names) THEN [flags |-> flags, err |-> <<>>]
    ELSE IF names[k] \notin DOMAIN flags
         THEN [flags |-> flags, err |-> <<names[k]>>]
         ELSE LET base == IF v THEN [n \in DOMAIN flags |-> FALSE] ELSE flags
              IN  applyNamesClearEach(setAll(MapPut(base, names[k], v),
                                             MapGet(hier, names[k], <<>>), 1, v),
                                      hier, names, k + 1, v)

\* one of the two loops over Options.FilterPhases / Options.SkipPhases:
\* gives [flags, err]; err is "" or the unknown name wrapped in a tuple
RECURSIVE applyNames(_, _, _, _, _)
applyNames(flags, hier, names, k, v) ==
    IF k > Len(names) THEN [flags |-> flags, err |-> <<>>]
    ELSE IF names[k] \notin DOMAIN flags
         THEN [flags |-> flags, err |-> <<names[k]>>]
         ELSE applyNames(setAll(MapPut(flags, names[k], v), MapGet(hier, names[k], <<>>), 1, v),
                         hier, names, k + 1, v)

\* a plausible slip: the skip list is applied before the filter list
computePhaseRunFlagsSkipFirst(runners, options) ==
    LET init     == initFlags(runners, 1, EmptyMap, EmptyMap)
        flags0   == init[1]
        hier     == init[2]
        skipped  == applyNames(flags0, hier, options.SkipPhases, 1, FALSE)
    IN  IF skipped.err # <<>> THEN skipped
        ELSE IF Len(options.FilterPhases) > 0
        THEN applyNames(skipped.flags, hier, options.FilterPhases, 1, TRUE)
        ELSE skipped

\* computePhaseRunFlags: [flags, err]; err = <<>> is a nil error, err = <<f>>
\* is the "invalid phase name: f" error
computePhaseRunFlags(runners, options) ==
    LET init     == initFlags(runners, 1, EmptyMap, EmptyMap)
        flags0   == init[1]
        hier     == init[2]
        filtered == IF Len(options.FilterPhases) > 0
                    THEN applyNames([n \in DOMAIN flags0 |-> FALSE], hier,
                                    options.FilterPhases, 1, TRUE)
                    ELSE [flags |-> flags0, err |-> <<>>]
    IN  IF filtered.err # <<>> THEN filtered
        ELSE applyNames(filtered.flags, hier, options.SkipPhases, 1, FALSE)

\* ------------------------------------------------------------- RunData
\* A RunData value is an interface value: NilData is the nil interface,
\* TypedNil is a nil *resetData pointer stored in the interface (which is
\* not equal to nil), a positive number is a pointer to a data object.
NilData == 0
TypedNil == -1

IsObject(d) == d > 0

\* the registered factories: none; the init one, which returns (nil, err)
\* on failure; the reset one, which returns newResetData's (*resetData)(nil)
\* together with the error
Initializers == {"none", "init", "reset"}

\* what the factory returns: [value, err]
FactoryResult(initializer, ok, fresh) ==
    IF ok THEN [value |-> fresh, err |-> FALSE]
    ELSE IF initializer = "reset" THEN [value |-> TypedNil, err |-> TRUE]
    ELSE [value |-> NilData, err |-> TRUE]

\* what the factory leaves in Options: the init one, when it succeeds and
\* no phase is to be skipped yet, writes the skipPhases of the configuration
\* it has loaded (cfgSkip) to Options.SkipPhases
FactoryOptions(options, initializer, called, ok, cfgSkip) ==
    IF called /\ ok /\ initializer = "init" /\ Len(options.SkipPhases) = 0
    THEN [options EXCEPT !.SkipPhases = cfgSkip]
    ELSE options

\* a plausible slip: the cached value is not looked at
InitDataResultNoCache(curData, initializer, ok, fresh) ==
    IF initializer # "none"
    THEN LET r == FactoryResult(initializer, ok, fresh)
         IN  IF r.err
             THEN [runData |-> r.value, ret |-> NilData, err |-> TRUE, called |-> TRUE]
             ELSE [runData |-> r.value, ret |-> r.value, err |-> FALSE, called |-> TRUE]
    ELSE [runData |-> curData, ret |-> curData, err |-> FALSE, called |-> FALSE]

\* InitData: [runData, ret, err, called]; ok is the outcome of the factory
\* should it be invoked, fresh the object it would allocate
InitDataResult(curData, initializer, ok, fresh) ==
    IF curData = NilData /\ initializer # "none"
    THEN LET r == FactoryResult(initializer, ok, fresh)
         IN  IF r.err
             THEN [runData |-> r.value, ret |-> NilData, err |-> TRUE, called |-> TRUE]
             ELSE [runData |-> r.value, ret |-> r.value, err |-> FALSE, called |-> TRUE]
    ELSE [runData |-> curData, ret |-> curData, err |-> FALSE, called |-> FALSE]

\* ---------------------------------------------------------------- errors
NoError == [kind |-> "nil", name |-> <<>>]
ErrUnknownPhase(f) == [kind |-> "UnknownPhase", name |-> f]
ErrInitData == [kind |-> "InitData", name |-> <<>>]
ErrRunAllSiblings(p) == [kind |-> "RunAllSiblings", name |-> p.generatedName]
ErrRunIf(p) == [kind |-> "RunIf", name |-> p.generatedName]
ErrRun(p) == [kind |-> "Run", name |-> p.generatedName]

\* ------------------------------------------------------------ the Runner
\* a name a caller may put into FilterPhases / SkipPhases that is not the
\* generatedName of any node: the first phase's name as declared, not cleaned
UnknownNames == { <<"A">> }

KnownNames(phases) ==
    LET rs == prepareForExecution(phases)
    IN  { rs[k].generatedName : k \in 1..Len(rs) }

OptionNames(phases) == KnownNames(phases) \cup UnknownNames

RECURSIVE SeqsUpTo(_, _)
SeqsUpTo(S, n) ==
    IF n = 0 THEN {<<>>}
    ELSE LET shorter == SeqsUpTo(S, n - 1)
         IN  shorter \cup { Append(q, x) : q \in shorter, x \in S }

\* the empty list and the one-entry lists: what a phase sub-command writes
\* to FilterPhases
UpToOne(S) == {<<>>} \cup { <<x>> : x \in S }

NoCall == [op |-> "none", ret |-> NilData, err |-> NoError]

\* the host before any command is bound, any error handled, any socket
\* probed and any client asked for
NoHost ==
    /\ commands = <<>>
    /\ subcommands = EmptyMap
    /\ helpLines = <<>>
    /\ bound = "no"
    /\ exits = <<>>
    /\ checked = <<>>
    /\ isSocket = {}
    /\ detected = <<>>
    /\ client = NilData
    /\ dryRun = FALSE
    /\ created = <<>>
    /\ cleaned = <<>>
    /\ joinShown = FALSE
    /\ forceReset = FALSE
    /\ stdin = <<>>
    /\ inputRead = FALSE
    /\ cfgCertificatesDir = DefaultCertificatesDir
    /\ certificatesDir = DefaultCertificatesDir
    /\ certCalls = <<>>
    /\ Endpoints = <<>>
    /\ memberAdds = 0
    /\ etcdCalls = <<>>
    /\ nodeExists = FALSE
    /\ node = [Labels |-> EmptyMap, Taints |-> <<>>]
    /\ requested = <<>>
    /\ marked = <<>>
    /\ clusterNode = "none"
    /\ bootstrapConf = FALSE
    /\ kubeletRunning = FALSE
    /\ joinCalls = <<>>

\* NewRunner() followed by AppendPhase for every phase of the workflow
NewRunner(phases, options) ==
    /\ Phases = phases
    /\ Options = options
    /\ runDataInitializer = "none"
    /\ runData = NilData
    /\ phaseRunners = <<>>
    /\ pc = "idle"
    /\ phaseRunFlags = EmptyMap
    /\ data = NilData
    /\ idx = 0
    /\ lastCall = NoCall
    /\ held = [valid |-> FALSE, value |-> NilData]
    /\ invoked = <<>>
    /\ heap = <<>>
    /\ factoryCalls = 0
    /\ nCalls = 0
    /\ NoHost

NoOptions == [FilterPhases |-> <<>>, SkipPhases |-> <<>>]

\* Runner.AppendPhase(t)
AppendPhase(t) ==
    /\ UNCHANGED hostVars
    /\ pc = "idle"
    /\ Phases' = Append(Phases, t)
    /\ UNCHANGED <<Options, runDataInitializer, runData, phaseRunners, pc,
                   phaseRunFlags, data, idx, lastCall, held, invoked, heap,
                   factoryCalls, nCalls>>

\* Runner.SetDataInitializer(builder)
SetDataInitializer(builder) ==
    /\ UNCHANGED hostVars
    /\ pc = "idle"
    /\ runDataInitializer = "none"
    /\ nCalls = 0
    /\ runDataInitializer' = builder
    /\ UNCHANGED <<Phases, Options, runData, phaseRunners, pc,
                   phaseRunFlags, data, idx, lastCall, held, invoked, heap,
                   factoryCalls, nCalls>>

\* the caller writes Options.FilterPhases (as the phase sub-commands do)
SetFilterPhases(f) ==
    /\ UNCHANGED hostVars
    /\ pc = "idle"
    /\ nCalls < MaxCalls
    /\ Options.FilterPhases # f
    /\ Options' = [Options EXCEPT !.FilterPhases = f]
    /\ UNCHANGED <<Phases, runDataInitializer, runData, phaseRunners, pc,
                   phaseRunFlags, data, idx, lastCall, held, invoked, heap,
                   factoryCalls, nCalls>>

\* the --skip-phases flag, bound to Options.SkipPhases, is parsed
SetSkipPhases(s) ==
    /\ UNCHANGED hostVars
    /\ pc = "idle"
    /\ nCalls < MaxCalls
    /\ Options.SkipPhases # s
    /\ Options' = [Options EXCEPT !.SkipPhases = s]
    /\ UNCHANGED <<Phases, runDataInitializer, runData, phaseRunners, pc,
                   phaseRunFlags, data, idx, lastCall, held, invoked, heap,
                   factoryCalls, nCalls>>

\* the factory allocates a new data object
Allocate(h) == Append(h, <<>>)

\* Runner.InitData(args), called by the owner of the Runner; ok is what the
\* factory does if it is invoked, cfgSkip the skipPhases of the
\* configuration it loads
InitData(ok, cfgSkip) ==
    /\ UNCHANGED hostVars
    /\ pc = "idle"
    /\ nCalls < MaxCalls
    /\ LET r == InitDataResult(runData, runDataInitializer, ok, Len(heap) + 1)
       IN  /\ runData' = r.runData
           /\ Options' = FactoryOptions(Options, runDataInitializer, r.called, ok, cfgSkip)
           /\ heap' = IF r.called /\ ok THEN Allocate(heap) ELSE heap
           /\ factoryCalls' = IF r.called THEN factoryCalls + 1 ELSE factoryCalls
           /\ lastCall' = [op |-> "InitData", ret |-> r.ret,
                           err |-> IF r.err THEN ErrInitData ELSE NoError]
           /\ held' = [valid |-> ~r.err, value |-> r.ret]
    /\ nCalls' = nCalls + 1
    /\ UNCHANGED <<Phases, runDataInitializer, phaseRunners, pc,
                   phaseRunFlags, data, idx, invoked>>

\* a plausible slip: Run builds the RunData before it computes the run
\* flags
RunFromInitFirst(options, ok, cfgSkip) ==
    /\ pc = "idle"
    /\ nCalls < MaxCalls
    /\ nCalls' = nCalls + 1
    /\ invoked' = <<>>
    /\ LET runners == prepareForExecution(Phases)
           r       == InitDataResult(runData, runDataInitializer, ok, Len(heap) + 1)
           written == FactoryOptions(options, runDataInitializer, r.called, ok, cfgSkip)
           flags   == computePhaseRunFlags(runners, written)
       IN  /\ phaseRunners' = runners
           /\ runData' = r.runData
           /\ Options' = written
           /\ heap' = IF r.called /\ ok THEN Allocate(heap) ELSE heap
           /\ factoryCalls' = IF r.called THEN factoryCalls + 1 ELSE factoryCalls
           /\ IF r.err
              THEN /\ lastCall' = [op |-> "Run", ret |-> NilData, err |-> ErrInitData]
                   /\ UNCHANGED <<pc, phaseRunFlags, data, idx>>
              ELSE IF flags.err # <<>>
              THEN /\ lastCall' = [op |-> "Run", ret |-> NilData,
                                   err |-> ErrUnknownPhase(flags.err[1])]
                   /\ UNCHANGED <<pc, phaseRunFlags, data, idx>>
              ELSE /\ pc' = "visit"
                   /\ phaseRunFlags' = flags.flags
                   /\ data' = r.ret
                   /\ idx' = 1
                   /\ lastCall' = [op |-> "Run", ret |-> NilData, err |-> NoError]
    /\ UNCHANGED <<Phases, runDataInitializer, held>>

\* Runner.Run(args) up to the start of the last visitAll: the list of
\* phaseRunners is rebuilt, the run flags are computed, InitData is called;
\* ok and cfgSkip as in InitData; options is what Options holds when Run is
\* called
RunFrom(options, ok, cfgSkip) ==
    /\ pc = "idle"
    /\ nCalls < MaxCalls
    /\ nCalls' = nCalls + 1
    /\ invoked' = <<>>
    /\ LET runners == prepareForExecution(Phases)
           flags   == computePhaseRunFlags(runners, options)
           r       == InitDataResult(runData, runDataInitializer, ok, Len(heap) + 1)
       IN  /\ phaseRunners' = runners
           /\ IF flags.err # <<>>
              THEN /\ lastCall' = [op |-> "Run", ret |-> NilData,
                                   err |-> ErrUnknownPhase(flags.err[1])]
                   /\ Options' = options
                   /\ UNCHANGED <<runData, heap, factoryCalls, pc,
                                  phaseRunFlags, data, idx>>
              ELSE /\ runData' = r.runData
                   /\ Options' = FactoryOptions(options, runDataInitializer, r.called,
                                                ok, cfgSkip)
                   /\ heap' = IF r.called /\ ok THEN Allocate(heap) ELSE heap
                   /\ factoryCalls' = IF r.called THEN factoryCalls + 1 ELSE factoryCalls
                   /\ IF r.err
                      THEN /\ lastCall' = [op |-> "Run", ret |-> NilData, err |-> ErrInitData]
                           /\ UNCHANGED <<pc, phaseRunFlags, data, idx>>
                      ELSE /\ pc' = "visit"
                           /\ phaseRunFlags' = flags.flags
                           /\ data' = r.ret
                           /\ idx' = 1
                           /\ lastCall' = [op |-> "Run", ret |-> NilData, err |-> NoError]
    /\ UNCHANGED <<Phases, runDataInitializer, held>>

\* Runner.Run(args) called with the Options as they are
RunBegin(ok, cfgSkip) ==
    /\ UNCHANGED hostVars
    /\ RunFrom(Options, ok, cfgSkip)

\* what a phase function reads from the data object it was given
Contents(h, d) == IF IsObject(d) THEN h[d] ELSE <<>>

\* a plausible slip: the phases are handed a copy of the data object
MutateCopy(h, d, name) == h

\* a phase action writes to the data object it was given
Mutate(h, d, name) == IF IsObject(d) THEN [h EXCEPT ![d] = Append(@, name)] ELSE h

Invocation(fn, k, d, ret, h) ==
    [fn |-> fn, node |-> k, data |-> d, ret |-> ret, seen |-> Contents(h, d)]

\* a plausible slip: "!run && !ok" instead of "!run || !ok"
ShouldSkipBothMissing(flags, name) == name \notin DOMAIN flags

\* "if run, ok := phaseRunFlags[p.generatedName]; !run || !ok"
ShouldSkip(flags, name) == ~MapGet(flags, name, FALSE) \/ name \notin DOMAIN flags

\* "p.RunAllSiblings && (p.RunIf != nil || p.Run != nil)"
Misconfigured(phase) == phase.RunAllSiblings /\ (phase.RunIf \/ phase.Run)

\* a plausible slip: the result of the run condition is not looked at
CondSkipsNever(cond) == FALSE

\* "if !ok { return nil }" after a run condition that returned no error
CondSkips(cond) == cond = "false"

\* a plausible slip: an error of the run condition is taken for "false"
VisitResultCondErrSkips(p, k, flags, d, cond, act, log, h) ==
    IF ShouldSkip(flags, p.generatedName)
    THEN [err |-> NoError, invoked |-> log, heap |-> h]
    ELSE IF Misconfigured(p.Phase)
    THEN [err |-> ErrRunAllSiblings(p), invoked |-> log, heap |-> h]
    ELSE
      LET log1 == IF p.Phase.RunIf
                  THEN Append(log, Invocation("RunIf", k, d, cond, h))
                  ELSE log
          log2 == Append(log1, Invocation("Run", k, d, act, h))
      IN  IF p.Phase.RunIf /\ (cond = "err" \/ CondSkips(cond))
          THEN [err |-> NoError, invoked |-> log1, heap |-> h]
          ELSE IF p.Phase.Run
          THEN [err |-> IF act = "err" THEN ErrRun(p) ELSE NoError,
                invoked |-> log2, heap |-> Mutate(h, d, p.generatedName)]
          ELSE [err |-> NoError, invoked |-> log1, heap |-> h]

\* a plausible slip: Run passes over the hidden phases as Help and
\* BindToCommand do
VisitResultHiddenSkipped(p, k, flags, d, cond, act, log, h) ==
    IF p.Phase.Hidden \/ ShouldSkip(flags, p.generatedName)
    THEN [err |-> NoError, invoked |-> log, heap |-> h]
    ELSE IF Misconfigured(p.Phase)
    THEN [err |-> ErrRunAllSiblings(p), invoked |-> log, heap |-> h]
    ELSE
      LET log1 == IF p.Phase.RunIf
                  THEN Append(log, Invocation("RunIf", k, d, cond, h))
                  ELSE log
          log2 == Append(log1, Invocation("Run", k, d, act, h))
      IN  IF p.Phase.RunIf /\ cond = "err"
          THEN [err |-> ErrRunIf(p), invoked |-> log1, heap |-> h]
          ELSE IF p.Phase.RunIf /\ CondSkips(cond)
          THEN [err |-> NoError, invoked |-> log1, heap |-> h]
          ELSE IF p.Phase.Run
          THEN [err |-> IF act = "err" THEN ErrRun(p) ELSE NoError,
                invoked |-> log2, heap |-> Mutate(h, d, p.generatedName)]
          ELSE [err |-> NoError, invoked |-> log1, heap |-> h]

\* the function Run passes to visitAll, applied to the k-th phaseRunner p:
\* [err, invoked, heap]; cond and act are what p.RunIf and p.Run return
\* when they are called
VisitResult(p, k, flags, d, cond, act, log, h) ==
    IF ShouldSkip(flags, p.generatedName)
    THEN [err |-> NoError, invoked |-> log, heap |-> h]
    ELSE IF Misconfigured(p.Phase)
    THEN [err |-> ErrRunAllSiblings(p), invoked |-> log, heap |-> h]
    ELSE
      LET log1 == IF p.Phase.RunIf
                  THEN Append(log, Invocation("RunIf", k, d, cond, h))
                  ELSE log
          log2 == Append(log1, Invocation("Run", k, d, act, h))
      IN  IF p.Phase.RunIf /\ cond = "err"
          THEN [err |-> ErrRunIf(p), invoked |-> log1, heap |-> h]
          ELSE IF p.Phase.RunIf /\ CondSkips(cond)
          THEN [err |-> NoError, invoked |-> log1, heap |-> h]
          ELSE IF p.Phase.Run
          THEN [err |-> IF act = "err" THEN ErrRun(p) ELSE NoError,
                invoked |-> log2, heap |-> Mutate(h, d, p.generatedName)]
          ELSE [err |-> NoError, invoked |-> log1, heap |-> h]

\* a plausible slip: visitAll drops the error of fn and goes on with the
\* next phaseRunner; the first error is what Run returns in the end
RunVisitKeepGoing(cond, act) ==
    /\ UNCHANGED hostVars
    /\ pc = "visit"
    /\ idx <= Len(phaseRunners)
    /\ LET r == VisitResult(phaseRunners[idx], idx, phaseRunFlags, data,
                            cond, act, invoked, heap)
       IN  /\ invoked' = r.invoked
           /\ heap' = r.heap
           /\ lastCall' = IF r.err # NoError /\ lastCall.err = NoError
                          THEN [lastCall EXCEPT !.err = r.err] ELSE lastCall
           /\ idx' = idx + 1
           /\ UNCHANGED pc
    /\ UNCHANGED <<Phases, Options, runDataInitializer, runData, phaseRunners,
                   phaseRunFlags, data, held, factoryCalls, nCalls>>

\* a function of a phase (or the data initializer) holds the Runner and
\* writes Options.SkipPhases while Run is going through the phases
WriteSkipPhasesInRun(s) ==
    /\ UNCHANGED hostVars
    /\ pc = "visit"
    /\ Options.SkipPhases # s
    /\ Options' = [Options EXCEPT !.SkipPhases = s]
    /\ UNCHANGED <<Phases, runDataInitializer, runData, phaseRunners, pc,
                   phaseRunFlags, data, idx, lastCall, held, invoked, heap,
                   factoryCalls, nCalls>>

\* a plausible slip: a phase whose functions return an error is tried again
RunVisitRetry(cond, act) ==
    /\ UNCHANGED hostVars
    /\ pc = "visit"
    /\ idx <= Len(phaseRunners)
    /\ LET r == VisitResult(phaseRunners[idx], idx, phaseRunFlags, data,
                            cond, act, invoked, heap)
       IN  /\ invoked' = r.invoked
           /\ heap' = r.heap
           /\ IF r.err # NoError
              THEN UNCHANGED <<idx, lastCall, pc>>
              ELSE /\ idx' = idx + 1
                   /\ UNCHANGED <<lastCall, pc>>
    /\ UNCHANGED <<Phases, Options, runDataInitializer, runData, phaseRunners,
                   phaseRunFlags, data, held, factoryCalls, nCalls>>

\* a plausible slip: the run flags are computed again for every phaseRunner
\* instead of once before the visit
RunVisitRecompute(cond, act) ==
    /\ UNCHANGED hostVars
    /\ pc = "visit"
    /\ idx <= Len(phaseRunners)
    /\ LET flags == computePhaseRunFlags(phaseRunners, Options).flags
           r == VisitResult(phaseRunners[idx], idx, flags, data,
                            cond, act, invoked, heap)
       IN  /\ phaseRunFlags' = flags
           /\ invoked' = r.invoked
           /\ heap' = r.heap
           /\ IF r.err # NoError
              THEN /\ lastCall' = [lastCall EXCEPT !.err = r.err]
                   /\ pc' = "idle"
                   /\ UNCHANGED idx
              ELSE /\ idx' = idx + 1
                   /\ UNCHANGED <<lastCall, pc>>
    /\ UNCHANGED <<Phases, Options, runDataInitializer, runData, phaseRunners,
                   data, held, factoryCalls, nCalls>>

\* the position of the last phaseRunner nested under the k-th one
RECURSIVE SubtreeEnd(_, _, _)
SubtreeEnd(runners, k, j) ==
    IF j < Len(runners) /\ runners[j + 1].level > runners[k].level
    THEN SubtreeEnd(runners, k, j + 1)
    ELSE j

\* a plausible slip: a phase whose run condition returned false takes its
\* nested phases with it
RunVisitCascade(cond, act) ==
    /\ UNCHANGED hostVars
    /\ pc = "visit"
    /\ idx <= Len(phaseRunners)
    /\ LET p == phaseRunners[idx]
           r == VisitResult(p, idx, phaseRunFlags, data, cond, act, invoked, heap)
           condFalse == /\ ~ShouldSkip(phaseRunFlags, p.generatedName)
                        /\ ~Misconfigured(p.Phase)
                        /\ p.Phase.RunIf
                        /\ CondSkips(cond)
       IN  /\ invoked' = r.invoked
           /\ heap' = r.heap
           /\ IF r.err # NoError
              THEN /\ lastCall' = [lastCall EXCEPT !.err = r.err]
                   /\ pc' = "idle"
                   /\ UNCHANGED idx
              ELSE /\ idx' = IF condFalse THEN SubtreeEnd(phaseRunners, idx, idx) + 1
                                           ELSE idx + 1
                   /\ UNCHANGED <<lastCall, pc>>
    /\ UNCHANGED <<Phases, Options, runDataInitializer, runData, phaseRunners,
                   phaseRunFlags, data, held, factoryCalls, nCalls>>

\* one iteration of visitAll inside Run: what it does to the Runner
visitOne(cond, act) ==
    /\ pc = "visit"
    /\ idx <= Len(phaseRunners)
    /\ LET r == VisitResult(phaseRunners[idx], idx, phaseRunFlags, data,
                            cond, act, invoked, heap)
       IN  /\ invoked' = r.invoked
           /\ heap' = r.heap
           /\ IF r.err # NoError
              THEN /\ lastCall' = [lastCall EXCEPT !.err = r.err]
                   /\ pc' = "idle"
                   /\ UNCHANGED idx
              ELSE /\ idx' = idx + 1
                   /\ UNCHANGED <<lastCall, pc>>
    /\ UNCHANGED <<Phases, Options, runDataInitializer, runData, phaseRunners,
                   phaseRunFlags, data, held, factoryCalls, nCalls>>

\* one iteration of visitAll inside Run
RunVisit(cond, act) ==
    /\ UNCHANGED hostVars
    /\ visitOne(cond, act)

\* visitAll has gone through the whole list: Run returns nil
RunReturn ==
    /\ UNCHANGED hostVars
    /\ pc = "visit"
    /\ idx > Len(phaseRunners)
    /\ pc' = "idle"
    /\ UNCHANGED <<Phases, Options, runDataInitializer, runData, phaseRunners,
                   phaseRunFlags, data, idx, lastCall, held, invoked, heap,
                   factoryCalls, nCalls>>

\* ------------------------------------------------------------ CheckErr
\* the text of the error a phase function returns
CauseText(kind) ==
    IF kind = "Run" THEN <<"action failed">>
    ELSE IF kind = "RunIf" THEN <<"condition failed">>
    ELSE IF kind = "InitData" THEN <<"initializer failed">>
    ELSE <<>>

\* a plausible slip: the error of a phase function is wrapped without the
\* name of the phase
ErrorTextBare(err) ==
    IF err.kind = "Run" THEN <<"error execute phase ">> \o <<": ">> \o CauseText("Run")
    ELSE IF err.kind = "RunIf"
    THEN <<"error execute run conditions for phase ">> \o <<": ">> \o CauseText("RunIf")
    ELSE IF err.kind = "RunAllSiblings"
    THEN <<"phase marked as RunAllSiblings can not have Run functions ">> \o err.name
    ELSE IF err.kind = "UnknownPhase" THEN <<"invalid phase name: ">> \o err.name
    ELSE CauseText(err.kind)

\* err.Error() of the errors Run returns: errors.Wrapf(err, "... %s",
\* p.generatedName) gives the message, ": " and the text of err;
\* errors.Errorf gives the message; the error of the data initializer is
\* returned as it is
ErrorText(err) ==
    IF err.kind = "Run"
    THEN <<"error execute phase ">> \o err.name \o <<": ">> \o CauseText("Run")
    ELSE IF err.kind = "RunIf"
    THEN <<"error execute run conditions for phase ">> \o err.name \o <<": ">>
           \o CauseText("RunIf")
    ELSE IF err.kind = "RunAllSiblings"
    THEN <<"phase marked as RunAllSiblings can not have Run functions ">> \o err.name
    ELSE IF err.kind = "UnknownPhase" THEN <<"invalid phase name: ">> \o err.name
    ELSE CauseText(err.kind)

\* fmt.Sprintf("%+v", err): the text of the innermost error and its stack,
\* then the wrapping message and its stack
DetailedText(err) ==
    IF err.kind \in {"Run", "RunIf"}
    THEN CauseText(err.kind) \o <<"\n", "stack", "\n">> \o ErrorText(err) \o <<"\n", "stack">>
    ELSE ErrorText(err) \o <<"\n", "stack">>

DefaultErrorExitCode == 1
PreFlightExitCode == 2
ValidationExitCode == 3

\* the dynamic types of the errors met: one that implements neither
\* interface, one with a method Preflight(), an Aggregate, one that is both
ErrTypes == {"plain", "preflightError", "Aggregate", "preflightAggregate"}

\* the type switch: does a value of this dynamic type match the case
IsPreflightError(t) == t \in {"preflightError", "preflightAggregate"}
IsAggregate(t) == t \in {"Aggregate", "preflightAggregate"}

\* a plausible slip: the error is classified by its cause
ErrTypeOfCause(err, type) == type

\* the dynamic type of the error Run returns, type being the one of the
\* error of the function that failed: the errors made by Run itself and
\* its wrappers of the error of a phase are plain; the error of the data
\* initializer is passed on as it is
ErrType(err, type) == IF err.kind = "InitData" THEN type ELSE "plain"

\* the values of the flag "v" tried
Verbosities == {0, 5}

\* checkErr(err, handleErr): the calls of handleErr it makes
checkErr(err, type, v) ==
    LET msg == IF v > 4 THEN DetailedText(err)
               ELSE ErrorText(err) \o <<"\n", "to see the stack trace use --v=5">>
    IN  IF err = NoError THEN <<>>
        ELSE IF IsPreflightError(ErrType(err, type))
        THEN << [msg |-> msg, code |-> PreFlightExitCode] >>
        ELSE IF IsAggregate(ErrType(err, type))
        THEN << [msg |-> msg, code |-> ValidationExitCode] >>
        ELSE << [msg |-> msg, code |-> DefaultErrorExitCode] >>

\* main: kubeadmutil.CheckErr(app.Run()), once the command has returned
\* what Run returned; the process ends with it
CheckErr(type, v) ==
    /\ pc = "idle"
    /\ lastCall.op = "Run"
    /\ exits' = exits \o checkErr(lastCall.err, type, v)
    /\ checked' = Append(checked, [err |-> lastCall.err, cause |-> type, v |-> v])
    /\ pc' = "exit"
    /\ UNCHANGED <<Phases, Options, runDataInitializer, runData, phaseRunners,
                   phaseRunFlags, data, idx, lastCall, held, invoked, heap,
                   factoryCalls, nCalls>>
    /\ UNCHANGED <<cliVars, criVars, clientVars, postVars, resetVars, certVars, etcdVars, markVars, joinVars>>

\* ----------------------------------------------------- DetectCRISocket
\* the socket paths the detection knows
dockerSocket == "dockerSocket"
containerdSocket == "containerdSocket"
crioSocket == "/var/run/crio/crio.sock"
DefaultDockerCRISocket == "DefaultDockerCRISocket"

knownCRISockets == <<crioSocket>>

\* the loop over knownCRISockets
RECURSIVE appendKnown(_, _, _)
appendKnown(found, exists, k) ==
    IF k > Len(knownCRISockets) THEN found
    ELSE appendKnown(IF knownCRISockets[k] \in exists
                     THEN Append(found, knownCRISockets[k]) ELSE found,
                     exists, k + 1)

\* detectCRISocketImpl(isSocket): [socket, err, found]; exists holds the
\* paths for which isSocket answers true
detectCRISocketImpl(exists) ==
    LET first == IF dockerSocket \in exists THEN <<DefaultDockerCRISocket>>
                 ELSE IF containerdSocket \in exists THEN <<containerdSocket>>
                 ELSE <<>>
        foundCRISockets == appendKnown(first, exists, 1)
    IN  IF Len(foundCRISockets) = 0
        THEN [socket |-> DefaultDockerCRISocket, err |-> FALSE, found |-> foundCRISockets]
        ELSE IF Len(foundCRISockets) = 1
        THEN [socket |-> foundCRISockets[1], err |-> FALSE, found |-> foundCRISockets]
        ELSE [socket |-> "", err |-> TRUE, found |-> foundCRISockets]

\* DetectCRISocket(); the answer is kept with the sockets that existed
DetectCRISocket ==
    /\ Len(detected) < MaxCalls
    /\ detected' = Append(detected,
                          [exists |-> isSocket, ret |-> detectCRISocketImpl(isSocket)])
    /\ UNCHANGED isSocket
    /\ UNCHANGED <<runnerVars, cliVars, exitVars, clientVars, postVars, resetVars, certVars, etcdVars, markVars, joinVars>>

\* a container runtime is installed or removed: its socket appears or goes
SocketChanges(path) ==
    /\ isSocket' = IF path \in isSocket THEN isSocket \ {path} ELSE isSocket \cup {path}
    /\ UNCHANGED detected
    /\ UNCHANGED <<runnerVars, cliVars, exitVars, clientVars, postVars, resetVars, certVars, etcdVars, markVars, joinVars>>

\* ----------------------------------------------------- initData.Client
\* the phases that ask initData for the client
ClientCallers == { <<"a">>, <<"b">> }

ErrClient == [kind |-> "Client", name |-> <<>>]

\* kubeconfigutil.ClientSetFromFile(path): [value, err].  Its first result
\* is assigned to the interface field d.client before err is looked at; on
\* failure it is a nil that is either a nil interface or a nil pointer of
\* the concrete client type (failed says which).
ClientSetFromFile(ok, failed, fresh) ==
    IF ok THEN [value |-> fresh, err |-> FALSE]
    ELSE [value |-> failed, err |-> TRUE]

\* initData.Client() called by a phase; ok: the creation, if one is tried,
\* succeeds (the service CIDR parses in dry-run mode, the kubeconfig file
\* loads otherwise).  invoked keeps who called and what was returned.
Client(caller, ok, failed) ==
    /\ nCalls < MaxCalls
    /\ nCalls' = nCalls + 1
    /\ IF client = NilData
       THEN IF dryRun
            THEN IF ok
                 THEN /\ client' = Len(created) + 1
                      /\ created' = Append(created, [by |-> "NewDryRunClient", ok |-> TRUE])
                      /\ lastCall' = [op |-> "Client", ret |-> Len(created) + 1,
                                      err |-> NoError]
                 ELSE /\ lastCall' = [op |-> "Client", ret |-> NilData, err |-> ErrClient]
                      /\ UNCHANGED <<client, created>>
            ELSE LET r == ClientSetFromFile(ok, failed, Len(created) + 1)
                 IN  /\ client' = r.value
                     /\ created' = Append(created, [by |-> "ClientSetFromFile", ok |-> ok])
                     /\ lastCall' = [op |-> "Client",
                                     ret |-> IF r.err THEN NilData ELSE r.value,
                                     err |-> IF r.err THEN ErrClient ELSE NoError]
       ELSE /\ lastCall' = [op |-> "Client", ret |-> client, err |-> NoError]
            /\ UNCHANGED <<client, created>>
    /\ invoked' = Append(invoked, [fn |-> "Client", caller |-> caller,
                                   ret |-> lastCall'.ret, err |-> lastCall'.err])
    /\ UNCHANGED dryRun
    /\ UNCHANGED <<Phases, Options, runDataInitializer, runData, phaseRunners, pc,
                   phaseRunFlags, data, idx, held, heap, factoryCalls>>
    /\ UNCHANGED <<cliVars, exitVars, criVars, postVars, resetVars, certVars, etcdVars, markVars, joinVars>>

\* the --dry-run flag is given
SetDryRun ==
    /\ nCalls = 0
    /\ ~dryRun
    /\ dryRun' = TRUE
    /\ UNCHANGED <<client, created>>
    /\ UNCHANGED <<runnerVars, cliVars, exitVars, criVars, postVars, resetVars, certVars, etcdVars, markVars, joinVars>>

\* ------------------------------------------------------ BindToCommand
\* A *cobra.Command is its position in commands; PhaseCommand is the
\* "phase" command made first, NilCommand a nil pointer.
PhaseCommand == 0
NilCommand == -1

\* a plausible slip: a phase sub-command always selects its own phase
phaseSelectorOwn(runners, k) == runners[k].generatedName

\* "phaseSelector := p.generatedName; if p.RunAllSiblings { phaseSelector =
\* p.parent.generatedName }"
phaseSelector(runners, k) ==
    IF runners[k].Phase.RunAllSiblings
    THEN runners[runners[k].parent].generatedName
    ELSE runners[k].generatedName

\* The visitAll of BindToCommand from the k-th phaseRunner on.  A command
\* keeps what its RunE closure captured (the selector, whether the phase
\* has nested phases), the command it was added to and, for the
\* properties, the phaseRunner it was made for.  AddCommand on the nil
\* command read from subcommands panics.
RECURSIVE bindVisit(_, _, _, _)
bindVisit(runners, k, cmds, subs) ==
    IF k > Len(runners)
    THEN [commands |-> cmds, subcommands |-> subs, panic |-> FALSE]
    ELSE LET p == runners[k]
         IN  IF p.Phase.Hidden THEN bindVisit(runners, k + 1, cmds, subs)
             ELSE LET parentCmd ==
                          IF p.level = 0 THEN PhaseCommand
                          ELSE MapGet(subs, runners[p.parent].generatedName, NilCommand)
                      phaseCmd ==
                          [Use |-> ToLower(p.Phase.Name),
                           selector |-> phaseSelector(runners, k),
                           hasPhases |-> Len(p.Phase.Phases) > 0,
                           parent |-> parentCmd, node |-> k]
                  IN  IF parentCmd = NilCommand
                      THEN [commands |-> cmds, subcommands |-> subs, panic |-> TRUE]
                      ELSE bindVisit(runners, k + 1, Append(cmds, phaseCmd),
                                     MapPut(subs, p.generatedName, Len(cmds) + 1))

\* Runner.Help: one line, indented by the level, for every phaseRunner that
\* is neither hidden nor marked RunAllSiblings
RECURSIVE Help(_, _)
Help(runners, k) ==
    IF k > Len(runners) THEN <<>>
    ELSE (IF ~runners[k].Phase.Hidden /\ ~runners[k].Phase.RunAllSiblings
          THEN << [level |-> runners[k].level, use |-> runners[k].use, node |-> k] >>
          ELSE <<>>)
         \o Help(runners, k + 1)

\* Runner.BindToCommand(cmd)
BindToCommand ==
    /\ bound = "no"
    /\ pc = "idle"
    /\ nCalls = 0
    /\ IF Len(Phases) = 0
       THEN /\ bound' = "done"
            /\ UNCHANGED <<phaseRunners, commands, subcommands, helpLines>>
       ELSE LET runners == prepareForExecution(Phases)
                r       == bindVisit(runners, 1, <<>>, EmptyMap)
            IN  /\ phaseRunners' = runners
                /\ commands' = r.commands
                /\ subcommands' = r.subcommands
                /\ bound' = IF r.panic THEN "panic" ELSE "done"
                /\ helpLines' = IF r.panic THEN helpLines ELSE Help(runners, 1)
    /\ UNCHANGED <<Phases, Options, runDataInitializer, runData, pc, phaseRunFlags,
                   data, idx, lastCall, held, invoked, heap, factoryCalls, nCalls>>
    /\ UNCHANGED <<exitVars, criVars, clientVars, postVars, resetVars, certVars, etcdVars, markVars, joinVars>>

\* a plausible slip: the sub-command of a phase with nested phases runs the
\* phase like any other
RunEAlwaysRuns(c, ok, cfgSkip) ==
    /\ bound = "done"
    /\ c \in DOMAIN commands
    /\ UNCHANGED hostVars
    /\ RunFrom([Options EXCEPT !.FilterPhases = <<commands[c].selector>>], ok, cfgSkip)

\* the RunE of the sub-command c made by BindToCommand: the help of the
\* command for a phase with nested phases, else FilterPhases is set to the
\* selector and Run is called
RunE(c, ok, cfgSkip) ==
    /\ bound = "done"
    /\ c \in DOMAIN commands
    /\ UNCHANGED hostVars
    /\ IF commands[c].hasPhases
       THEN /\ pc = "idle"
            /\ nCalls < MaxCalls
            /\ nCalls' = nCalls + 1
            /\ lastCall' = [op |-> "Help", ret |-> NilData, err |-> NoError]
            /\ UNCHANGED <<Phases, Options, runDataInitializer, runData, phaseRunners,
                           pc, phaseRunFlags, data, idx, held, invoked, heap,
                           factoryCalls>>
       ELSE RunFrom([Options EXCEPT !.FilterPhases = <<commands[c].selector>>],
                    ok, cfgSkip)

CondResults == {"true", "false", "err"}
ActResults == {"ok", "err"}

\* ------------------------------------------------------------------------
\* Spec: one invocation of a command.  The workflow is declared, the data
\* initializer is registered, the flags are parsed (or a phase sub-command
\* selects its phase), and the workflow is run once.  The configuration
\* names no phase to skip.
Init == NewRunner(<<>>, NoOptions)

Next ==
    \/ /\ runDataInitializer = "none"
       /\ \E t \in PhaseDecls(Len(Phases) + 1, MaxPhases - PhaseCountSeq(Phases, 1),
                              PhaseKinds) : AppendPhase(t)
    \/ SetDataInitializer("init")
    \/ /\ runDataInitializer # "none"
       /\ nCalls = 0
       /\ \E f \in UpToOne(OptionNames(Phases)) : SetFilterPhases(f)
    \/ /\ runDataInitializer # "none"
       /\ nCalls = 0
       /\ \E s \in UpToOne(OptionNames(Phases)) : SetSkipPhases(s)
    \/ /\ runDataInitializer # "none"
       /\ nCalls = 0
       /\ \E ok \in BOOLEAN : RunBegin(ok, <<>>)
    \/ \E cond \in CondResults, act \in ActResults : RunVisit(cond, act)
    \/ RunReturn

Spec == Init /\ [][Next]_vars

\* SpecFair: the same workflows, run whole or less the phases that
\* SkipPhases names, with the progress the code gives: visitAll is a loop
\* over the list, so, the functions of the phases returning, the next
\* phaseRunner is visited and Run returns after the last one.
NextFair ==
    \/ /\ runDataInitializer = "none"
       /\ \E t \in PhaseDecls(Len(Phases) + 1, MaxPhases - PhaseCountSeq(Phases, 1),
                              PhaseKinds) : AppendPhase(t)
    \/ SetDataInitializer("init")
    \/ /\ runDataInitializer # "none"
       /\ nCalls = 0
       /\ \E s \in UpToOne(OptionNames(Phases)) : SetSkipPhases(s)
    \/ /\ runDataInitializer # "none"
       /\ nCalls = 0
       /\ \E ok \in BOOLEAN : RunBegin(ok, <<>>)
    \/ \E cond \in CondResults, act \in ActResults : RunVisit(cond, act)
    \/ RunReturn

SpecFair ==
    /\ Init /\ [][NextFair]_vars
    /\ WF_vars(\E cond \in CondResults, act \in ActResults : RunVisit(cond, act))
    /\ WF_vars(RunReturn)

\* ------------------------------------------------------------------------
\* SpecData: the owner of one Runner calls InitData and Run in any order,
\* at most MaxCalls times, on a fixed workflow; the configuration the init
\* data initializer loads lists a phase to skip or none.
DataWorkflow ==
    << Phase(NameOf(1), Action, FALSE, << Phase(NameOf(1), Conditional, FALSE, <<>>) >>),
       Phase(NameOf(2), Action, FALSE, <<>>) >>

InitData0 == NewRunner(DataWorkflow, NoOptions)

\* what the configuration loaded by the data initializer may list as
\* skipPhases
ConfigSkips == { <<"b">> }

NextData ==
    \/ \E b \in Initializers \ {"none"} : SetDataInitializer(b)
    \/ \E f \in UpToOne(UnknownNames) : SetFilterPhases(f)
    \/ \E ok \in BOOLEAN, cfgSkip \in UpToOne(ConfigSkips) : InitData(ok, cfgSkip)
    \/ \E ok \in BOOLEAN, cfgSkip \in UpToOne(ConfigSkips) : RunBegin(ok, cfgSkip)
    \/ \E cond \in CondResults, act \in ActResults : RunVisit(cond, act)
    \/ RunReturn

SpecData == InitData0 /\ [][NextData]_vars

\* ------------------------------------------------------------------------
\* SpecFlags: the run-flag computation applied to every workflow of at most
\* MaxPhases phases and every pair of name lists within the bounds.
InitFlags ==
    \E phases \in ChildSeqs(1, MaxPhases, FlagKinds) :
      \E f \in SeqsUpTo(OptionNames(phases), MaxFilter),
         s \in SeqsUpTo(OptionNames(phases), MaxSkip) :
        NewRunner(phases, [FilterPhases |-> f, SkipPhases |-> s])

\* prepareForExecution followed by computePhaseRunFlags, as Run starts
ComputeFlags ==
    /\ UNCHANGED hostVars
    /\ lastCall = NoCall
    /\ LET runners == prepareForExecution(Phases)
           flags   == computePhaseRunFlags(runners, Options)
       IN  /\ phaseRunners' = runners
           /\ phaseRunFlags' = flags.flags
           /\ lastCall' = [op |-> "computePhaseRunFlags", ret |-> NilData,
                           err |-> IF flags.err # <<>>
                                   THEN ErrUnknownPhase(flags.err[1]) ELSE NoError]
    /\ UNCHANGED <<Phases, Options, runDataInitializer, runData, pc, data, idx,
                   held, invoked, heap, factoryCalls, nCalls>>

NextFlags == ComputeFlags

SpecFlags == InitFlags /\ [][NextFlags]_vars

\* ------------------------------------------------------------------------
\* SpecTree: the flattening applied to every workflow of at most MaxPhases
\* phases with names from TreeNames.
InitTree == \E phases \in TreeSeqs(MaxPhases, {}) : NewRunner(phases, NoOptions)

\* prepareForExecution, as Run starts
Flatten ==
    /\ UNCHANGED hostVars
    /\ lastCall = NoCall
    /\ phaseRunners' = prepareForExecution(Phases)
    /\ lastCall' = [op |-> "prepareForExecution", ret |-> NilData, err |-> NoError]
    /\ UNCHANGED <<Phases, Options, runDataInitializer, runData, pc, phaseRunFlags,
                   data, idx, held, invoked, heap, factoryCalls, nCalls>>

NextTree == Flatten

SpecTree == InitTree /\ [][NextTree]_vars

\* ------------------------------------------------------------------------
\* SpecCli: every workflow of at most MaxCli phases, each hidden or not, an
\* action or a RunAllSiblings marker, is bound to a command, with the init
\* data initializer registered or none; then one of the phase sub-commands
\* or the command itself is executed, once.
CliKinds == {Action, Marker}

\* all phases named NameOf(i) that declare at most n descriptors, and all
\* sequences of sibling phases, the first named NameOf(i), that declare at
\* most n descriptors together
RECURSIVE CliPhases(_, _), CliSeqs(_, _)
CliPhases(i, n) ==
    IF n < 1 THEN {}
    ELSE { Phase(NameOf(i), k, h, cs) :
             k \in CliKinds, h \in BOOLEAN, cs \in CliSeqs(1, n - 1) }

CliSeqs(i, n) ==
    {<<>>} \cup
    UNION { { <<p>> \o rest : rest \in CliSeqs(i + 1, n - PhaseCount(p)) } :
              p \in CliPhases(i, n) }

\* what Options.SkipPhases may name when the command is executed
CliSkips == { <<"a", "/", "b">> }

InitCli ==
    \E phases \in CliSeqs(1, MaxCli), skip \in UpToOne(CliSkips) :
        NewRunner(phases, [FilterPhases |-> <<>>, SkipPhases |-> skip])

NextCli ==
    \/ BindToCommand
    \/ SetDataInitializer("init")
    \/ /\ nCalls = 0
       /\ \E c \in DOMAIN commands : RunE(c, TRUE, <<>>)
    \/ /\ nCalls = 0
       /\ bound = "done"
       /\ RunBegin(TRUE, <<>>)
    \/ \E act \in ActResults : RunVisit("true", act)
    \/ RunReturn

SpecCli == InitCli /\ [][NextCli]_vars

\* ------------------------------------------------------------------------
\* SpecExit: one execution of a command of the fixed workflow: the data
\* initializer is registered, FilterPhases is set or not, Run is called
\* once and main hands what it returned to CheckErr.
ExitFilters == UnknownNames \cup { <<"b">> }

NextExit ==
    \/ \E b \in Initializers \ {"none"} : SetDataInitializer(b)
    \/ /\ nCalls = 0
       /\ \E f \in UpToOne(ExitFilters) : SetFilterPhases(f)
    \/ /\ nCalls = 0
       /\ \E ok \in BOOLEAN : RunBegin(ok, <<>>)
    \/ \E cond \in CondResults, act \in ActResults : RunVisit(cond, act)
    \/ RunReturn
    \/ \E type \in ErrTypes, v \in Verbosities : CheckErr(type, v)

SpecExit == InitData0 /\ [][NextExit]_vars

\* ------------------------------------------------------------------------
\* SpecCri: the sockets of the container runtimes come and go on the host
\* and DetectCRISocket is called at most MaxCalls times.
InitCri == NewRunner(<<>>, NoOptions)

NextCri ==
    \/ \E path \in {dockerSocket, containerdSocket, crioSocket} : SocketChanges(path)
    \/ DetectCRISocket

SpecCri == InitCri /\ [][NextCri]_vars

\* ------------------------------------------------------------------------
\* SpecClient: the phases of init ask initData for the client, at most
\* MaxCalls times, in dry-run mode or not.
InitClient == NewRunner(<<>>, NoOptions)

NextClient ==
    \/ SetDryRun
    \/ \E caller \in ClientCallers, ok \in BOOLEAN, failed \in {NilData, TypedNil} :
          Client(caller, ok, failed)

SpecClient == InitClient /\ [][NextClient]_vars

\* ------------------------------------------------------------------------
\* SpecDeep: the flattening applied to every workflow of at most MaxDeep
\* phases, nested to any depth, all of one kind, no two siblings of one name.
InitDeep == \E phases \in ChildSeqs(1, MaxDeep, FlagKinds) : NewRunner(phases, NoOptions)

NextDeep == Flatten

SpecDeep == InitDeep /\ [][NextDeep]_vars

\* ------------------------------------------------------------------------
\* SpecPlan: one Runner is run at most MaxCalls times; between two Runs the
\* caller changes FilterPhases and SkipPhases and, after the first Run,
\* appends a phase; the init data initializer writes the skipPhases of its
\* configuration to Options, and Options.SkipPhases is written while a Run
\* is in progress.
PlanNames == { <<"a">>, <<"c">> }

PlanExtra == Phase(NameOf(3), Action, FALSE, <<>>)

InitPlan == NewRunner(DataWorkflow, NoOptions)

NextPlan ==
    \/ SetDataInitializer("init")
    \/ /\ runDataInitializer # "none"
       /\ \E f \in UpToOne(PlanNames) : SetFilterPhases(f)
    \/ /\ runDataInitializer # "none"
       /\ \E s \in UpToOne(PlanNames) : SetSkipPhases(s)
    \/ /\ nCalls >= 1
       /\ Len(Phases) = Len(DataWorkflow)
       /\ AppendPhase(PlanExtra)
    \/ /\ runDataInitializer # "none"
       /\ \E ok \in BOOLEAN, cfgSkip \in UpToOne(PlanNames) : RunBegin(ok, cfgSkip)
    \/ \E cond \in CondResults, act \in ActResults : RunVisit(cond, act)
    \/ \E s \in UpToOne(PlanNames) : WriteSkipPhasesInRun(s)
    \/ RunReturn

SpecPlan == InitPlan /\ [][NextPlan]_vars

\* ========================================================================
\* Properties
\* ========================================================================
Nodes == 1..Len(phaseRunners)
Node(k) == phaseRunners[k]
Flag(k) == MapGet(phaseRunFlags, Node(k).generatedName, FALSE)

\* a is a proper prefix of b
IsPrefix(a, b) == Len(a) < Len(b) /\ SubSeq(b, 1, Len(a)) = a

\* the descriptor of node a encloses the descriptor of node k in the
\* declared tree
IsAncestor(a, k) == IsPrefix(Node(a).pos, Node(k).pos)

\* pre-order of the declared tree on positions: a descriptor comes before
\* everything it encloses and before every later sibling's subtree
Before(p, q) ==
    \/ IsPrefix(p, q)
    \/ \E i \in 1..Len(p) :
          /\ i <= Len(q)
          /\ SubSeq(p, 1, i - 1) = SubSeq(q, 1, i - 1)
          /\ p[i] < q[i]

Calls(k, fn) == { i \in DOMAIN invoked : invoked[i].node = k /\ invoked[i].fn = fn }

RunFinished == pc = "idle" /\ lastCall.op = "Run"

\* the run condition of node k is absent or has returned true
CondPassed(k) ==
    \/ ~Node(k).Phase.RunIf
    \/ \E i \in Calls(k, "RunIf") : invoked[i].ret = "true"

\* no function of a phase has returned an error and no phase that was to
\* run is a wrongly declared RunAllSiblings marker
AllSucceeded ==
    /\ \A i \in DOMAIN invoked : invoked[i].ret # "err"
    /\ \A k \in Nodes : Flag(k) => ~Misconfigured(Node(k).Phase)

\* C1 (fail-fast): when the action of a node N has returned an error, Run
\* has returned an error that carries N's generatedName, N's action was
\* invoked once, the action of every node before N whose run flag is true
\* and whose run condition is absent or true was invoked once, and no
\* function of a node after N was invoked.
C1_FailFast ==
    \A i \in DOMAIN invoked :
      (invoked[i].fn = "Run" /\ invoked[i].ret = "err") =>
        LET n == invoked[i].node
        IN  /\ RunFinished
            /\ lastCall.err = [kind |-> "Run", name |-> Node(n).generatedName]
            /\ Cardinality(Calls(n, "Run")) = 1
            /\ \A k \in Nodes :
                 /\ (k < n /\ Flag(k) /\ Node(k).Phase.Run /\ CondPassed(k))
                      => Cardinality(Calls(k, "Run")) = 1
                 /\ k > n => Calls(k, "Run") \cup Calls(k, "RunIf") = {}

\* an eligible node has run, the next node's action has failed, and a third
\* node that was to run has not been touched
C1_Witness ==
    /\ RunFinished
    /\ lastCall.err.kind = "Run"
    /\ Len(phaseRunners) = 3
    /\ idx = 2
    /\ Calls(1, "Run") # {}
    /\ Flag(3) /\ Node(3).Phase.Run

\* C2 (execution order): the functions of the phases are invoked in the
\* pre-order of the declared tree, the condition of a node right before
\* its action, and never alternating between two nodes.
C2_ExecutionOrder ==
    \A i, j \in DOMAIN invoked :
      i < j =>
        IF invoked[i].node = invoked[j].node
        THEN j = i + 1 /\ invoked[i].fn = "RunIf" /\ invoked[j].fn = "Run"
        ELSE Before(Node(invoked[i].node).pos, Node(invoked[j].node).pos)

\* a parent, its child and a later top-level phase have all run
C2_Witness ==
    /\ Len(phaseRunners) = 3
    /\ Node(2).parent = 1
    /\ Node(3).parent = 0
    /\ \A k \in Nodes : Calls(k, "Run") # {}

\* C5 (run flag false): no function of a node whose run flag is false is
\* invoked; an error returned by the visit names a node whose run flag is
\* true; and when all the nodes that were to run succeed, Run returns nil.
C5_FlagFalseSkipped ==
    /\ \A i \in DOMAIN invoked : Flag(invoked[i].node)
    /\ (RunFinished /\ lastCall.err.kind \in {"Run", "RunIf", "RunAllSiblings"})
         => \E k \in Nodes : Flag(k) /\ Node(k).generatedName = lastCall.err.name
    /\ (RunFinished /\ lastCall.err.kind \notin {"UnknownPhase", "InitData"} /\ AllSucceeded)
         => lastCall.err = NoError

\* Run has returned nil after running one phase and leaving out another one
\* that declares an action or a condition
C5_Witness ==
    /\ RunFinished
    /\ lastCall.err = NoError
    /\ invoked # <<>>
    /\ \E k \in Nodes : ~Flag(k) /\ (Node(k).Phase.Run \/ Node(k).Phase.RunIf)

UnknownIn(names) ==
    { names[i] : i \in DOMAIN names } \ { Node(k).generatedName : k \in Nodes }

\* C6 (unknown name): a Run whose FilterPhases or SkipPhases holds a name
\* that is no node's generatedName returns an unknown-phase error for such
\* a name and invokes nothing.
C6_UnknownNameRejected ==
    (lastCall.op = "Run" /\ UnknownIn(Options.FilterPhases \o Options.SkipPhases) # {}) =>
        /\ pc = "idle"
        /\ lastCall.err.kind = "UnknownPhase"
        /\ lastCall.err.name \in UnknownIn(Options.FilterPhases \o Options.SkipPhases)
        /\ invoked = <<>>

\* a valid filter with an unknown skip name, on a workflow that has an action
C6_Witness ==
    /\ lastCall.op = "Run"
    /\ lastCall.err.kind = "UnknownPhase"
    /\ Len(Options.FilterPhases) = 1
    /\ UnknownIn(Options.FilterPhases) = {}
    /\ UnknownIn(Options.SkipPhases) # {}
    /\ \E k \in Nodes : Node(k).Phase.Run

\* C10 (condition false): after the run condition of a node has returned
\* false, the action of the node is not invoked, the visit goes on with the
\* nodes after it, and Run returns nil when nothing else fails.
C10_ConditionFalseSkips ==
    \A i \in DOMAIN invoked :
      (invoked[i].fn = "RunIf" /\ invoked[i].ret = "false") =>
        /\ Calls(invoked[i].node, "Run") = {}
        /\ pc = "visit" => idx > invoked[i].node
        /\ i < Len(invoked) => invoked[i + 1].node > invoked[i].node
        /\ (RunFinished /\ AllSucceeded) => lastCall.err = NoError

\* a condition has returned false, a later phase has run, Run returned nil
C10_Witness ==
    /\ RunFinished
    /\ lastCall.err = NoError
    /\ \E i \in DOMAIN invoked :
         /\ invoked[i].fn = "RunIf" /\ invoked[i].ret = "false"
         /\ Node(invoked[i].node).Phase.Run
         /\ i < Len(invoked)

\* ---- the run-flag computation (SpecFlags)
FlagsComputed == lastCall.op = "computePhaseRunFlags" /\ lastCall.err = NoError

\* node k, or a node whose descriptor encloses k's, is named in the list
NamedOrUnder(k, names) ==
    \E i \in DOMAIN names : \E a \in Nodes :
        /\ Node(a).generatedName = names[i]
        /\ (a = k \/ IsAncestor(a, k))

\* what the filter step is to give node k
FilterStep(k) ==
    Options.FilterPhases = <<>> \/ NamedOrUnder(k, Options.FilterPhases)

\* C3 (filter inclusion propagates down): with SkipPhases empty and
\* FilterPhases made of known names, the run flag of a node is true exactly
\* when FilterPhases is empty or names the node or one of its ancestors.
C3_FilterPropagatesDown ==
    (FlagsComputed /\ Options.SkipPhases = <<>>) =>
        /\ DOMAIN phaseRunFlags = { Node(k).generatedName : k \in Nodes }
        /\ \A k \in Nodes : Flag(k) <=> FilterStep(k)

\* the filter names a nested phase that has a sub-phase: both run, the
\* parent does not
C3_Witness ==
    /\ FlagsComputed
    /\ Options.SkipPhases = <<>>
    /\ \E k, c \in Nodes :
         /\ Options.FilterPhases = << Node(k).generatedName >>
         /\ Node(c).parent = k /\ Flag(c) /\ Flag(k)
         /\ Node(k).parent # 0 /\ ~Flag(Node(k).parent)

\* C4 (skip always wins): a node named in SkipPhases, or under a node named
\* there, has run flag false whatever FilterPhases says; every other node
\* has the flag of the filter step.
C4_SkipAlwaysWins ==
    FlagsComputed =>
        \A k \in Nodes :
            IF NamedOrUnder(k, Options.SkipPhases)
            THEN ~Flag(k)
            ELSE Flag(k) <=> FilterStep(k)

\* the filter names a phase, the skip list one of its sub-phases; another
\* sub-phase keeps the flag the filter gave it
C4_Witness ==
    /\ FlagsComputed
    /\ \E k, c, d \in Nodes :
         /\ Options.FilterPhases = << Node(k).generatedName >>
         /\ Options.SkipPhases = << Node(c).generatedName >>
         /\ Node(c).parent = k /\ Node(d).parent = k /\ c # d
         /\ Flag(k) /\ ~Flag(c) /\ Flag(d)

\* ---- the shared run data (SpecData)
FactoryNeverFailed == factoryCalls = Len(heap)

\* the last call has gone as far as InitData
ReachedInitData ==
    \/ lastCall.op = "InitData"
    \/ lastCall.op = "Run" /\ lastCall.err.kind # "UnknownPhase"

\* C7 as stated (singleton, created by the first call): with a registered
\* factory that has not failed, after any call the factory has been
\* invoked exactly once.
C7_FactoryOnceByFirstCall ==
    (runDataInitializer # "none" /\ nCalls >= 1 /\ FactoryNeverFailed) => factoryCalls = 1

\* C7 as amended: with a registered factory that has not failed, the
\* factory has been invoked exactly once as soon as a call has reached
\* InitData (a Run refused for an unknown phase name does not), and never
\* more than once; from then on the Runner keeps the object, every InitData
\* returns it and every Run hands it to the phases.
C7_SingletonInv ==
    /\ Len(heap) <= 1
    /\ FactoryNeverFailed => factoryCalls <= 1
    /\ (runDataInitializer # "none" /\ FactoryNeverFailed /\ ReachedInitData)
          => factoryCalls = 1 /\ runData = 1
    /\ (IsObject(runData) /\ lastCall.op = "InitData") => lastCall.ret = runData
    /\ (IsObject(runData) /\ pc = "visit") => data = runData

C7_SingletonStep ==
    IsObject(runData) =>
        /\ runData' = runData
        /\ factoryCalls' = factoryCalls
        /\ Len(heap') = Len(heap)

C7_Singleton == []C7_SingletonInv /\ [][C7_SingletonStep]_vars

\* three calls, the last of them a Run that hands the phases the object the
\* caller holds, and one invocation of the factory
C7_Witness ==
    /\ nCalls = 3
    /\ factoryCalls = 1
    /\ held.valid /\ IsObject(held.value)
    /\ pc = "visit"
    /\ data = held.value

\* C8 (a failure is not cached): after a call that returned the factory's
\* error the Runner holds no run data.
C8_FailureNotCached ==
    (pc = "idle" /\ lastCall.err = ErrInitData) => runData = NilData

\* the writes of the actions among the first n invocations
RECURSIVE Writes(_)
Writes(n) ==
    IF n = 0 THEN <<>>
    ELSE IF invoked[n].fn = "Run"
         THEN Append(Writes(n - 1), Node(invoked[n].node).generatedName)
         ELSE Writes(n - 1)

\* C9 (one shared object): every function of a phase is given the object
\* the caller got from InitData, finds in it what the phases before it
\* wrote, and the caller finds in it what all of them wrote, whether Run
\* has failed or not.
C9_SharedContext ==
    (held.valid /\ IsObject(held.value) /\ invoked # <<>>) =>
        /\ \A i \in DOMAIN invoked :
             /\ invoked[i].data = held.value
             /\ invoked[i].seen = invoked[1].seen \o Writes(i - 1)
        /\ pc = "idle" => heap[held.value] = invoked[1].seen \o Writes(Len(invoked))

\* the caller holds the object, two actions have written to it and Run has
\* failed
C9_Witness ==
    /\ held.valid /\ IsObject(held.value)
    /\ RunFinished
    /\ lastCall.err.kind = "Run"
    /\ Len(Writes(Len(invoked))) >= 2
    /\ Len(heap[held.value]) >= 2

\* ---- more on the visit (Spec)
\* the visit of Run has dealt with node k
Visited(k) ==
    \/ k < idx
    \/ k = idx /\ RunFinished /\ lastCall.err.kind \in {"Run", "RunIf", "RunAllSiblings"}

\* C11 (a false condition does not cascade): after the run condition of a
\* node has returned false, every node nested under it is still visited;
\* its condition is invoked exactly when its run flag is true and it
\* declares one, its action exactly when its run flag is true and its own
\* condition is absent or true.
C11_FalseConditionNoCascade ==
    \A i \in DOMAIN invoked :
      (invoked[i].fn = "RunIf" /\ invoked[i].ret = "false") =>
        \A c \in Nodes :
          IsAncestor(invoked[i].node, c) =>
            /\ (RunFinished /\ lastCall.err = NoError) => Visited(c)
            /\ Visited(c) =>
                 /\ Calls(c, "RunIf") # {} <=>
                       (Flag(c) /\ ~Misconfigured(Node(c).Phase) /\ Node(c).Phase.RunIf)
                 /\ Calls(c, "Run") # {} <=>
                       (Flag(c) /\ ~Misconfigured(Node(c).Phase) /\ Node(c).Phase.Run
                          /\ CondPassed(c))

\* the condition of a parent has returned false, the action of a phase
\* nested under it has run all the same, and Run has returned nil
C11_Witness ==
    /\ RunFinished
    /\ lastCall.err = NoError
    /\ \E i \in DOMAIN invoked : \E c \in Nodes :
         /\ invoked[i].fn = "RunIf" /\ invoked[i].ret = "false"
         /\ Node(c).parent = invoked[i].node
         /\ Calls(c, "Run") # {}

\* C12 (an error of the condition aborts): when the run condition of a
\* node N has returned an error, Run has returned an error that carries
\* N's generatedName, N's action was not invoked and no function of a node
\* after N was invoked.
C12_ConditionErrorAborts ==
    \A i \in DOMAIN invoked :
      (invoked[i].fn = "RunIf" /\ invoked[i].ret = "err") =>
        LET n == invoked[i].node
        IN  /\ RunFinished
            /\ lastCall.err = [kind |-> "RunIf", name |-> Node(n).generatedName]
            /\ Calls(n, "Run") = {}
            /\ i = Len(invoked)
            /\ \A k \in Nodes : k > n => Calls(k, "Run") \cup Calls(k, "RunIf") = {}

\* a phase has run, the condition of the next one has failed, and a third
\* phase that was to run has not been touched
C12_Witness ==
    /\ RunFinished
    /\ lastCall.err.kind = "RunIf"
    /\ Len(phaseRunners) = 3
    /\ idx = 2
    /\ Calls(1, "Run") # {}
    /\ Node(2).Phase.Run
    /\ Flag(3) /\ Node(3).Phase.Run

\* a descriptor of the declared tree, at any level, is marked
\* RunAllSiblings and declares Run or RunIf
RECURSIVE DeclaresMisconfigured(_, _)
DeclaresMisconfigured(phases, k) ==
    /\ k <= Len(phases)
    /\ \/ Misconfigured(phases[k])
       \/ DeclaresMisconfigured(phases[k].Phases, 1)
       \/ DeclaresMisconfigured(phases, k + 1)

\* C13 (RunAllSiblings guard at every level): a Run of the whole workflow
\* (no filter, no skip) that declares, at the top level or nested, a
\* RunAllSiblings descriptor with an action or a condition, and in which
\* nothing else fails, returns the invalid-configuration error.
C13_GuardAtEveryLevel ==
    (/\ RunFinished
     /\ Options = NoOptions
     /\ lastCall.err.kind # "InitData"
     /\ DeclaresMisconfigured(Phases, 1)
     /\ \A i \in DOMAIN invoked : invoked[i].ret # "err")
        => lastCall.err.kind = "RunAllSiblings"

\* ---- the flattening (SpecTree)
Flattened == lastCall.op = "prepareForExecution"

\* the positions, in pre-order, of the descriptors of the declared tree that
\* are not marked RunAllSiblings, those under a marked descriptor included
RECURSIVE PlainPositions(_, _, _)
PlainPositions(phases, prefix, k) ==
    IF k > Len(phases) THEN <<>>
    ELSE LET pos == Append(prefix, k)
         IN  (IF phases[k].RunAllSiblings THEN <<>> ELSE <<pos>>)
               \o PlainPositions(phases[k].Phases, pos, 1)
               \o PlainPositions(phases, prefix, k + 1)

\* C14 (flattening and RunAllSiblings): the flattened list holds one node
\* for every descriptor that is not marked RunAllSiblings, at every level
\* and also under a marked descriptor, and no node for a marked one.
C14_OneNodePerPlainDescriptor ==
    Flattened => [k \in Nodes |-> Node(k).pos] = PlainPositions(Phases, <<>>, 1)

\* C15 (pre-order): in the flattened list the nodes nested under a node
\* follow it at once and without a gap, the nodes keep the order of the
\* declared tree, and the parent link of a node is the earlier node of the
\* descriptor that encloses it (nil for a top-level node).
C15_PreOrder ==
    Flattened =>
        \A k \in Nodes :
            LET under == { c \in Nodes : IsAncestor(k, c) }
                pos   == Node(k).pos
            IN  /\ under = (k + 1)..(k + Cardinality(under))
                /\ \A j \in Nodes : Before(pos, Node(j).pos) => k < j
                /\ IF Len(pos) = 1
                   THEN Node(k).parent = 0
                   ELSE /\ Node(k).parent \in 1..(k - 1)
                        /\ Node(Node(k).parent).pos = SubSeq(pos, 1, Len(pos) - 1)

\* a phase with a nested phase that has a nested phase of its own
C15_Witness ==
    /\ Flattened
    /\ Len(phaseRunners) = 3
    /\ Node(2).parent = 1
    /\ Node(3).parent = 2

\* C16 (unique names): the generatedNames of the nodes of a workflow in
\* which no two siblings share a cleaned name are pairwise distinct,
\* whatever the names are, names holding the separator included.
C16_UniqueNames ==
    Flattened =>
        \A j, k \in Nodes : j # k => Node(j).generatedName # Node(k).generatedName

\* a name as the specification cleans it: lower-cased, cut at the first space
RECURSIVE CutAtSpace(_)
CutAtSpace(s) ==
    IF s = <<>> \/ Head(s) = " " THEN <<>>
    ELSE <<Head(s)>> \o CutAtSpace(Tail(s))

\* C17 (generatedName): the generatedName of a top-level node is the name
\* of its descriptor lower-cased and cut at the first space; that of a
\* nested node is the generatedName of its parent, the separator and its
\* own cleaned name.
C17_GeneratedName ==
    Flattened =>
        \A k \in Nodes :
            LET own == CutAtSpace(ToLower(Node(k).Phase.Name))
            IN  Node(k).generatedName =
                  IF Node(k).parent = 0 THEN own
                  ELSE Node(Node(k).parent).generatedName \o <<"/">> \o own

\* a nested phase named in upper case with an argument placeholder, under a
\* phase named in upper case
C17_Witness ==
    /\ Flattened
    /\ \E k \in Nodes :
         /\ Node(k).Phase.Name = <<"B", " ", "[", "x", "]">>
         /\ Node(k).parent # 0
         /\ Node(Node(k).parent).Phase.Name = <<"A">>
         /\ Node(k).generatedName = <<"a", "/", "b">>

\* ---- the plan of a Run (SpecPlan)
\* the visit of the last Run has started
RunInVisit ==
    \/ pc = "visit"
    \/ RunFinished /\ lastCall.err.kind \notin {"UnknownPhase", "InitData"}

\* the k-th of the runners, or one whose descriptor encloses its descriptor,
\* is named in the list
NamedOrUnderIn(runners, k, names) ==
    \E i \in DOMAIN names : \E a \in DOMAIN runners :
        /\ runners[a].generatedName = names[i]
        /\ (a = k \/ IsPrefix(runners[a].pos, runners[k].pos))

\* which of the runners the options select: those the filter names or
\* encloses (all of them without a filter), less those the skip list names
\* or encloses
PlanOf(runners, options) ==
    [k \in DOMAIN runners |->
        /\ options.FilterPhases = <<>> \/ NamedOrUnderIn(runners, k, options.FilterPhases)
        /\ ~NamedOrUnderIn(runners, k, options.SkipPhases)]

\* the run flags of the runners, one after the other
FlagsOf(runners, flags) ==
    [k \in DOMAIN runners |-> MapGet(flags, runners[k].generatedName, FALSE)]

UnknownAmong(runners, names) ==
    { names[i] : i \in DOMAIN names } \ { runners[k].generatedName : k \in DOMAIN runners }

\* a step that is a call of Run
C18_PlanStep ==
    nCalls' = nCalls + 1 =>
        /\ [k \in DOMAIN phaseRunners' |-> phaseRunners'[k].pos]
              = PlainPositions(Phases, <<>>, 1)
        /\ lastCall'.err.kind = "UnknownPhase" <=>
              UnknownAmong(phaseRunners', Options.FilterPhases \o Options.SkipPhases) # {}
        /\ pc' = "visit" =>
              FlagsOf(phaseRunners', phaseRunFlags') = PlanOf(phaseRunners', Options)

\* C18 (the plan is derived afresh): every Run, the first or a later one,
\* works on the nodes of the phases declared when it is called and on the
\* run flags that FilterPhases and SkipPhases select when it is called,
\* whatever the list and the flags of the Run before were; it invokes only
\* functions of nodes whose run flag is true.
C18_FreshPlan ==
    /\ [](\A i \in DOMAIN invoked : Flag(invoked[i].node))
    /\ [][C18_PlanStep]_vars

\* a later Run, after a phase was appended and the filter set to it, has
\* invoked the action of the new phase and nothing else
C18_Witness ==
    /\ nCalls >= 2
    /\ Len(Phases) = Len(DataWorkflow) + 1
    /\ Options.FilterPhases = << <<"c">> >>
    /\ RunFinished /\ lastCall.err = NoError
    /\ invoked # <<>>
    /\ \A i \in DOMAIN invoked : Node(invoked[i].node).generatedName = <<"c">>

\* what the visit has done to the nodes it has dealt with is what the run
\* flags say
C19_ExecutedAsFlagged ==
    RunInVisit =>
        \A c \in Nodes :
            Visited(c) =>
                /\ Calls(c, "RunIf") # {} <=>
                      (Flag(c) /\ ~Misconfigured(Node(c).Phase) /\ Node(c).Phase.RunIf)
                /\ Calls(c, "Run") # {} <=>
                      (Flag(c) /\ ~Misconfigured(Node(c).Phase) /\ Node(c).Phase.Run
                         /\ CondPassed(c))

C19_FlagsStep ==
    /\ (pc = "idle" /\ pc' = "visit") =>
          /\ invoked' = <<>>
          /\ DOMAIN phaseRunFlags'
                = { phaseRunners'[k].generatedName : k \in DOMAIN phaseRunners' }
          /\ Options' # Options =>
                FlagsOf(phaseRunners', phaseRunFlags') = PlanOf(phaseRunners', Options)
    /\ pc = "visit" => (phaseRunFlags' = phaseRunFlags /\ phaseRunners' = phaseRunners)

\* C19 (the run flags are fixed before the visit): when the visit of a Run
\* starts nothing has been invoked and every node has its run flag, computed
\* from the Options as they were before the data initializer wrote to them;
\* while the Run is in progress the flags and the list do not change,
\* whatever is written to Options; and the functions invoked are those the
\* flags select.
C19_FlagsFixed ==
    /\ []C19_ExecutedAsFlagged
    /\ [][C19_FlagsStep]_vars

\* a Run is about to visit its first node; SkipPhases has been written
\* since the Run was called and names that node, whose run flag is true
C19_Witness ==
    /\ pc = "visit"
    /\ idx = 1
    /\ invoked = <<>>
    /\ Options.SkipPhases = << Node(1).generatedName >>
    /\ Flag(1)

\* ---- the run-flag computation as a function (SpecFlags)
\* the lists no longer than l with the entries of l, in any order and with
\* entries repeated or dropped where l repeats them, and l twice over
Rearranged(l) ==
    { m \in SeqsUpTo({ l[i] : i \in DOMAIN l }, Len(l)) :
        { m[i] : i \in DOMAIN m } = { l[i] : i \in DOMAIN l } } \cup { l \o l }

C20_OrderFree ==
    FlagsComputed =>
        \A f \in Rearranged(Options.FilterPhases), s \in Rearranged(Options.SkipPhases) :
            /\ computePhaseRunFlags(phaseRunners, [FilterPhases |-> f, SkipPhases |-> s])
                  = [flags |-> phaseRunFlags, err |-> <<>>]
            /\ computePhaseRunFlags(phaseRunners, [FilterPhases |-> s, SkipPhases |-> f])
                  = computePhaseRunFlags(phaseRunners,
                        [FilterPhases |-> Options.SkipPhases,
                         SkipPhases |-> Options.FilterPhases])

\* C20 (the run-flag computation is a function of its inputs): it leaves
\* Options and the phases as they are, and for lists of known names the
\* map it gives is the one it gives for the same names in any other order
\* and with entries repeated, in FilterPhases and in SkipPhases (each of
\* the two lists is also tried in the place of the other).
C20_PureFunction ==
    /\ []C20_OrderFree
    /\ [][Options' = Options /\ Phases' = Phases]_vars

\* the flags were computed for a filter of two different names and a skip
\* list; some nodes are to run and some are not
C20_Witness ==
    /\ FlagsComputed
    /\ Len(Options.FilterPhases) = 2
    /\ Options.FilterPhases[1] # Options.FilterPhases[2]
    /\ Len(Options.SkipPhases) = 1
    /\ \E j, k \in Nodes : Flag(j) /\ ~Flag(k)

\* ---- paths and depths (SpecDeep)
\* the cleaned names of the ancestors of node k from the top-level one down,
\* then its own, read off the parent links
RECURSIVE AncestorPath(_)
AncestorPath(k) ==
    (IF Node(k).parent = 0 THEN <<>> ELSE AncestorPath(Node(k).parent))
      \o <<CutAtSpace(ToLower(Node(k).Phase.Name))>>

\* the elements of a path joined with the separator
RECURSIVE JoinPath(_)
JoinPath(path) ==
    IF Len(path) = 1 THEN path[1]
    ELSE path[1] \o <<"/">> \o JoinPath(Tail(path))

\* C26 (path and depth): after the flattening the path of every node is the
\* sequence of the cleaned names of its ancestors from the top-level one
\* down, ending in its own cleaned name; its depth is the number of its
\* ancestors and the length of the path less one; the path joined with "/"
\* is its generatedName.
C26_PathAndDepth ==
    Flattened =>
        \A k \in Nodes :
            /\ Node(k).selfPath = AncestorPath(k)
            /\ Node(k).level = Len(AncestorPath(k)) - 1
            /\ Node(k).level = Len(Node(k).selfPath) - 1
            /\ JoinPath(Node(k).selfPath) = Node(k).generatedName

\* the part of C26 that the code keeps: the depth of a node, and the length
\* of its path, whatever the path holds
C26_DepthOnly ==
    Flattened =>
        \A k \in Nodes :
            /\ Node(k).level = Len(AncestorPath(k)) - 1
            /\ Node(k).level = Len(Node(k).selfPath) - 1
            /\ JoinPath(AncestorPath(k)) = Node(k).generatedName

\* ---- the phase sub-commands (SpecCli)
\* node j is node k or nested under it
AtOrUnder(k, j) == j = k \/ IsAncestor(k, j)

\* the node whose phases the sub-command made for node k is to run: the
\* parent for a RunAllSiblings marker, else the node itself
Selected(k) == IF Node(k).Phase.RunAllSiblings THEN Node(k).parent ELSE k

\* C21 (sub-command selection): when the sub-command of a node without
\* nested phases has been invoked, FilterPhases holds exactly one name: the
\* generatedName of the node, or of its parent if the node is a
\* RunAllSiblings marker.  The run flags are then true exactly for that
\* node (the parent and every node under it for a marker), less what
\* SkipPhases names; only nodes with a true flag are invoked, and in a Run
\* that ends without error each of them that has an action is invoked.
C21_SubcommandSelects ==
    (bound = "done" /\ lastCall.op = "Run" /\ Options.FilterPhases # <<>>) =>
        \E c \in DOMAIN commands :
            LET k == commands[c].node
            IN  /\ Node(k).Phase.Phases = <<>>
                /\ Options.FilterPhases = <<Node(Selected(k)).generatedName>>
                /\ lastCall.err.kind # "UnknownPhase" =>
                      /\ \A j \in Nodes :
                            Flag(j) <=>
                              /\ AtOrUnder(Selected(k), j)
                              /\ ~NamedOrUnderIn(phaseRunners, j, Options.SkipPhases)
                      /\ \A i \in DOMAIN invoked : Flag(invoked[i].node)
                      /\ (RunFinished /\ lastCall.err = NoError) =>
                            \A j \in Nodes :
                                (Flag(j) /\ Node(j).Phase.Run) => Calls(j, "Run") # {}

\* the sub-command of a RunAllSiblings marker has run its parent and its
\* sibling; the sub-command of a plain leaf has run that leaf alone
C21_Witness ==
    /\ bound = "done" /\ RunFinished /\ lastCall.err = NoError
    /\ \E k \in Nodes :
         /\ Node(k).Phase.RunAllSiblings
         /\ \E c \in DOMAIN commands : commands[c].node = k
         /\ Options.FilterPhases = <<Node(Node(k).parent).generatedName>>
         /\ Calls(Node(k).parent, "Run") # {}
         /\ \E j \in Nodes : j # k /\ Node(j).parent = Node(k).parent
                               /\ Calls(j, "Run") # {}

C21_WitnessLeaf ==
    /\ bound = "done" /\ RunFinished /\ lastCall.err = NoError
    /\ Len(phaseRunners) = 3
    /\ Options.FilterPhases = <<Node(3).generatedName>>
    /\ Node(3).parent = 1
    /\ Calls(3, "Run") # {} /\ Calls(1, "Run") = {} /\ Calls(2, "Run") = {}

\* C22 (hidden phases still execute): a hidden node has no help line and
\* no sub-command, and Run deals with it as with any other node: its run
\* flag is what the filter and the skip list say, its action is invoked
\* exactly when its run flag is true (and it is no wrongly declared
\* marker), and the invocations follow the order of the list.
C22_HiddenStillRuns ==
    /\ bound = "done" =>
          \A k \in Nodes :
              Node(k).Phase.Hidden =>
                  /\ \A c \in DOMAIN commands : commands[c].node # k
                  /\ \A l \in DOMAIN helpLines : helpLines[l].node # k
    /\ (lastCall.op = "Run" /\ lastCall.err.kind # "UnknownPhase") =>
          /\ \A k \in Nodes :
                /\ Flag(k) = PlanOf(phaseRunners, Options)[k]
                /\ Visited(k) =>
                      (Calls(k, "Run") # {} <=>
                         (Flag(k) /\ ~Misconfigured(Node(k).Phase) /\ Node(k).Phase.Run))
          /\ \A i, j \in DOMAIN invoked : i < j => invoked[i].node < invoked[j].node

\* a hidden phase between two others has been run, after the first and
\* before the last
C22_Witness ==
    /\ bound = "done" /\ RunFinished /\ lastCall.err = NoError
    /\ Len(phaseRunners) = 3
    /\ Node(2).Phase.Hidden /\ ~Node(1).Phase.Hidden /\ ~Node(3).Phase.Hidden
    /\ Len(invoked) = 3
    /\ invoked[2].node = 2
    /\ Len(commands) = 2

\* C23 (sub-command projection): BindToCommand completes for every workflow
\* and every choice of hidden phases, and makes exactly one sub-command for
\* every node that is not hidden, added to the sub-command of its parent
\* node (to the "phase" command for a top-level node).
C23_Projection ==
    bound # "no" =>
        /\ bound = "done"
        /\ \A k \in Nodes :
              ~Node(k).Phase.Hidden =>
                  /\ Cardinality({ c \in DOMAIN commands : commands[c].node = k }) = 1
                  /\ \A c \in DOMAIN commands :
                        commands[c].node = k =>
                            IF Node(k).parent = 0
                            THEN commands[c].parent = PhaseCommand
                            ELSE /\ commands[c].parent \in DOMAIN commands
                                 /\ commands[commands[c].parent].node = Node(k).parent

\* what BindToCommand does keep: it completes whenever no phase that is not
\* hidden is nested in a hidden one, and the commands it has made, also
\* when it panics, are one for a node, none for a hidden node, each added
\* to the command of the parent node
C23_UnlessHiddenParent ==
    bound # "no" =>
        /\ bound = "panic" <=>
              \E k \in Nodes : /\ ~Node(k).Phase.Hidden
                                /\ \E a \in Nodes : IsAncestor(a, k) /\ Node(a).Phase.Hidden
        /\ \A c, e \in DOMAIN commands :
              /\ ~Node(commands[c].node).Phase.Hidden
              /\ commands[c].node = commands[e].node => c = e
              /\ IF Node(commands[c].node).parent = 0
                 THEN commands[c].parent = PhaseCommand
                 ELSE /\ commands[c].parent \in DOMAIN commands
                      /\ commands[commands[c].parent].node = Node(commands[c].node).parent
        /\ bound = "done" =>
              \A k \in Nodes :
                  ~Node(k).Phase.Hidden => \E c \in DOMAIN commands : commands[c].node = k

\* ---- the states of a node in one Run (SpecFair)
\* the visit of node k ended in an error
FailedAt(k) ==
    k = idx /\ RunFinished /\ lastCall.err.kind \in {"Run", "RunIf", "RunAllSiblings"}

NodeState(k) ==
    IF ~(lastCall.op = "Run" /\ lastCall.err.kind \notin {"UnknownPhase", "InitData"})
       \/ ~Visited(k)
    THEN "Pending"
    ELSE IF FailedAt(k) THEN "Failed"
    ELSE IF Flag(k) /\ CondPassed(k) THEN "Completed"
    ELSE "Skipped"

\* in every state: no function of a node is invoked twice, nothing of a
\* pending or skipped node but its condition is invoked, at most one node
\* has failed and then Run has returned its error with every later node
\* left pending
C24_NodeStates ==
    \A k \in Nodes :
        /\ Cardinality(Calls(k, "RunIf")) <= 1
        /\ Cardinality(Calls(k, "Run")) <= 1
        /\ NodeState(k) = "Pending" => Calls(k, "RunIf") = {} /\ Calls(k, "Run") = {}
        /\ NodeState(k) = "Skipped" => Calls(k, "Run") = {}
        /\ NodeState(k) = "Completed" =>
              (Node(k).Phase.Run => \E i \in Calls(k, "Run") : invoked[i].ret = "ok")
        /\ NodeState(k) = "Failed" =>
              /\ pc = "idle" /\ lastCall.err # NoError
              /\ \A j \in Nodes : j > k => NodeState(j) = "Pending"
              /\ \A j \in Nodes : j < k => NodeState(j) \in {"Skipped", "Completed"}

\* in every step of the visit: a node that has left Pending keeps its
\* state, and only the node at the head of the visit leaves Pending
C24_NodeStep ==
    pc = "visit" =>
        \A k \in Nodes :
            /\ NodeState(k) # "Pending" => NodeState(k)' = NodeState(k)
            /\ (NodeState(k) = "Pending" /\ NodeState(k)' # "Pending") => k = idx

\* C24 (node states and termination): in one Run every node goes from
\* Pending to Skipped, Completed or Failed at most once; its run condition
\* and its action are each invoked at most once; the first failed node ends
\* the Run; and every Run that has started its visit returns.
C24_NodeLifeCycle ==
    /\ []C24_NodeStates
    /\ [][C24_NodeStep]_vars
    /\ [](pc = "visit" => <>(pc = "idle"))

\* a Run that has returned with one node completed, one skipped by its
\* condition and one failed, the last node still pending
C24_Witness ==
    /\ RunFinished
    /\ \E a, b, c \in Nodes :
         /\ NodeState(a) = "Completed" /\ Calls(a, "Run") # {}
         /\ NodeState(b) = "Skipped" /\ Calls(b, "RunIf") # {}
         /\ NodeState(c) = "Failed"

C24_WitnessReturned ==
    /\ RunFinished /\ lastCall.err = NoError
    /\ Len(phaseRunners) = MaxPhases
    /\ \A k \in Nodes : NodeState(k) # "Pending"

\* ---- the exit of the process (SpecExit)
\* sub occurs in s
Contains(s, sub) ==
    \E i \in 0..(Len(s) - Len(sub)) : SubSeq(s, i + 1, i + Len(sub)) = sub

\* C25 (exit behaviour): once main has handed what Run returned to
\* CheckErr, the error handler has been called exactly once if Run returned
\* an error, with an exit code that is not 0 and a message that holds the
\* generatedName of the phase that failed and the text of the error its
\* function returned; it has not been called if Run returned nil, nor
\* before.
C25_ExitBehaviour ==
    IF pc = "exit" /\ lastCall.err # NoError
    THEN /\ Len(exits) = 1
         /\ exits[1].code # 0
         /\ lastCall.err.kind \in {"Run", "RunIf", "RunAllSiblings"} =>
               Contains(exits[1].msg, Node(idx).generatedName)
         /\ (\E i \in DOMAIN invoked : invoked[i].ret = "err") =>
               Contains(exits[1].msg,
                        IF invoked[Len(invoked)].fn = "Run" THEN <<"action failed">>
                        ELSE <<"condition failed">>)
    ELSE exits = <<>>

\* the action of the nested phase a/a has failed and the handler was called
C25_Witness ==
    /\ pc = "exit"
    /\ lastCall.err.kind = "Run"
    /\ Node(idx).generatedName = <<"a", "/", "a">>
    /\ Len(exits) = 1

\* Run returned nil and the process ended without a call of the handler
C25_WitnessNil ==
    /\ pc = "exit"
    /\ lastCall.err = NoError
    /\ invoked # <<>>

\* ---- the detection of the CRI socket (SpecCri)
\* the CRI sockets discovered among the existing paths: the socket of
\* Docker, that of containerd unless Docker is there (Docker comes bundled
\* with containerd), that of CRI-O
Discovered(exists) ==
    (IF dockerSocket \in exists THEN {DefaultDockerCRISocket}
     ELSE IF containerdSocket \in exists THEN {containerdSocket} ELSE {})
    \cup (IF crioSocket \in exists THEN {crioSocket} ELSE {})

\* C27 (DetectCRISocket): every call returns an error when more than one
\* CRI socket is discovered and when none is; it returns a socket without
\* an error only when exactly one is discovered, and then that one.
C27_ErrorUnlessOne ==
    \A i \in DOMAIN detected :
        LET sockets == Discovered(detected[i].exists)
        IN  /\ Cardinality(sockets) # 1 => detected[i].ret.err
            /\ ~detected[i].ret.err =>
                  /\ Cardinality(sockets) = 1
                  /\ detected[i].ret.socket \in sockets

\* what the code does: an error exactly when more than one socket is
\* discovered, the one discovered when there is one, the Docker socket
\* without an error when there is none
C27_DockerWhenNone ==
    \A i \in DOMAIN detected :
        LET sockets == Discovered(detected[i].exists)
        IN  /\ detected[i].ret.err <=> Cardinality(sockets) > 1
            /\ Cardinality(sockets) = 1 => detected[i].ret.socket \in sockets
            /\ Cardinality(sockets) = 0 => detected[i].ret.socket = DefaultDockerCRISocket

\* ---- the client of initData (SpecClient)
\* a step that is a call of Client
ClientCalled == nCalls' = nCalls + 1 /\ lastCall'.op = "Client"

\* C28 (the client is a singleton): once a call of Client has succeeded
\* every later call returns the same client and creates no other; a call
\* whose creation fails returns an error and leaves no client cached, so
\* that the next call tries a creation again; in dry-run mode the client is
\* the dry-run one and the kubeconfig file is never read.
C28_ClientStep ==
    ClientCalled =>
        /\ IsObject(client) =>
              /\ lastCall'.ret = client /\ lastCall'.err = NoError
              /\ client' = client /\ created' = created
        /\ lastCall'.err # NoError =>
              /\ lastCall'.ret = NilData
              /\ client' = NilData
        /\ (lastCall.op = "Client" /\ lastCall.err # NoError) =>
              (dryRun \/ Len(created') = Len(created) + 1)
        /\ lastCall'.err = NoError => IsObject(lastCall'.ret)
        /\ dryRun =>
              \A i \in DOMAIN created' : created'[i].by = "NewDryRunClient"

C28_ClientSingleton == [][C28_ClientStep]_vars

\* what the code keeps: the first client that is a real object is returned
\* by every later call and no other is created; a failed call returns nil
\* and an error; in dry-run mode no kubeconfig file is read
C28_ClientStepKept ==
    ClientCalled =>
        /\ IsObject(client) =>
              /\ lastCall'.ret = client /\ lastCall'.err = NoError
              /\ client' = client /\ created' = created
        /\ lastCall'.err # NoError => lastCall'.ret = NilData /\ ~IsObject(client')
        /\ dryRun =>
              /\ \A i \in DOMAIN created' : created'[i].by = "NewDryRunClient"
              /\ lastCall'.err # NoError => client' = NilData

C28_ClientKept == [][C28_ClientStepKept]_vars

\* ---- skipPhases of the configuration, unknown names (SpecData)
\* C29 (skips declared in the configuration): the phases named by the list
\* the data initializer has copied from the configuration into
\* Options.SkipPhases, and the phases under them, are not executed by any
\* Run, whether InitData was called before Run or Run itself has invoked
\* the initializer.
C29_ConfigSkipsHonoured ==
    (lastCall.op = "Run" /\ lastCall.err.kind \notin {"UnknownPhase", "InitData"}) =>
        \A i \in DOMAIN invoked :
            ~NamedOrUnderIn(phaseRunners, invoked[i].node, Options.SkipPhases)

\* what the code keeps: the initializer copies the list when it succeeds
\* and no phase is to be skipped yet, and a Run that does not invoke the
\* initializer itself (InitData was called before) gives a false run flag
\* to the phases the list names and to the phases under them
C29_HonouredStep ==
    (nCalls' = nCalls + 1 /\ lastCall'.op = "Run" /\ pc' = "visit"
       /\ factoryCalls' = factoryCalls) =>
        \A k \in DOMAIN phaseRunners' :
            NamedOrUnderIn(phaseRunners', k, Options'.SkipPhases) =>
                ~MapGet(phaseRunFlags', phaseRunners'[k].generatedName, FALSE)

C29_HonouredAfterInitData == [][C29_HonouredStep]_vars

\* C30 (unknown names come before the context): a call of Run that returns
\* because FilterPhases or SkipPhases names an unknown phase has not invoked
\* the data initializer and has left the cached RunData, present or absent,
\* as it was.
C30_UnknownStep ==
    (nCalls' = nCalls + 1 /\ lastCall'.op = "Run"
       /\ UnknownAmong(prepareLoop(<<>>, Phases, 1),
                       Options.FilterPhases \o Options.SkipPhases) # {}) =>
        /\ lastCall'.err.kind = "UnknownPhase"
        /\ factoryCalls' = factoryCalls
        /\ runData' = runData
        /\ heap' = heap
        /\ Options' = Options

C30_UnknownBeforeContext == [][C30_UnknownStep]_vars

\* Run has returned for an unknown name with the initializer registered and
\* never invoked; and with a RunData cached by an earlier call
C30_Witness ==
    /\ lastCall.op = "Run" /\ lastCall.err.kind = "UnknownPhase"
    /\ runDataInitializer = "init"
    /\ factoryCalls = 0 /\ runData = NilData

C30_WitnessCached ==
    /\ lastCall.op = "Run" /\ lastCall.err.kind = "UnknownPhase"
    /\ IsObject(runData) /\ factoryCalls = 1

\* ---- sub-commands of phases with nested phases (SpecCli)
\* a step in which the command or one of its phase sub-commands is executed
Executed == nCalls' = nCalls + 1 /\ bound = "done"

\* C31 (a sub-command of a phase with nested phases prints the help): the
\* execution of such a sub-command leaves Options.FilterPhases, the
\* RunData and the count of the invocations of the data initializer as they
\* were and invokes no function of a phase; a Run started by a sub-command
\* was started by one of a phase without nested phases, which is the phase
\* whose name, or whose parent's name for a marker, FilterPhases holds.
C31_HelpStep ==
    Executed =>
        /\ lastCall'.op \in {"Help", "Run"}
        /\ lastCall'.op = "Help" =>
              /\ \E k \in Nodes : ~Node(k).Phase.Hidden /\ Node(k).Phase.Phases # <<>>
              /\ Options' = Options
              /\ factoryCalls' = factoryCalls /\ runData' = runData /\ heap' = heap
              /\ invoked' = invoked /\ pc' = "idle"
        /\ (lastCall'.op = "Run" /\ Options'.FilterPhases # Options.FilterPhases) =>
              \E k \in Nodes :
                  /\ ~Node(k).Phase.Hidden
                  /\ Node(k).Phase.Phases = <<>>
                  /\ Options'.FilterPhases = <<Node(Selected(k)).generatedName>>

C31_ParentOnlyPrintsHelp == [][C31_HelpStep]_vars

\* the sub-command of a phase with a nested phase has been executed with
\* the data initializer registered: nothing ran
C31_Witness ==
    /\ lastCall.op = "Help"
    /\ runDataInitializer = "init"
    /\ factoryCalls = 0 /\ runData = NilData
    /\ Options.FilterPhases = <<>>
    /\ invoked = <<>>
    /\ \E k \in Nodes : Node(k).parent # 0

\* ---- the commands reset and init around their workflow (SpecPost)
\* The RunE of the command reset (of init): InitData, Run, and after them
\* cleanDirs (showJoinCommand).  The command is the one whose data
\* initializer is registered; the directories a phase has added with
\* AddDirsToClean are the entries of the data object.

\* RunE, first statement: c, err := runner.InitData(args)
CommandInitData(ok) ==
    /\ runDataInitializer # "none"
    /\ nCalls = 0
    /\ InitData(ok, <<>>)

\* RunE: InitData has returned nil and the command calls runner.Run(args)
CommandRun(ok) ==
    /\ nCalls = 1
    /\ lastCall.op = "InitData"
    /\ lastCall.err = NoError
    /\ RunBegin(ok, <<>>)

\* RunE returns the error of InitData or of Run
CommandReturnsError ==
    /\ pc = "idle"
    /\ lastCall.op \in {"InitData", "Run"}
    /\ lastCall.err # NoError
    /\ pc' = "exit"
    /\ UNCHANGED <<Phases, Options, runDataInitializer, runData, phaseRunners,
                   phaseRunFlags, data, idx, lastCall, held, invoked, heap,
                   factoryCalls, nCalls>>
    /\ UNCHANGED <<cliVars, exitVars, criVars, clientVars, postVars, resetVars, certVars, etcdVars, markVars, joinVars>>

\* the directories cleanDirs goes through: data.dirsToClean
dirsToClean(h, d) == IF IsObject(d) THEN h[d] ELSE <<>>

\* a plausible slip: the error of Run is not looked at
AfterWorkflowAnyway ==
    /\ pc = "idle"
    /\ lastCall.op = "Run"
    /\ IF runDataInitializer = "reset"
       THEN /\ cleaned' = cleaned \o dirsToClean(heap, held.value)
            /\ UNCHANGED joinShown
       ELSE /\ joinShown' = TRUE
            /\ UNCHANGED cleaned
    /\ pc' = "exit"
    /\ UNCHANGED <<Phases, Options, runDataInitializer, runData, phaseRunners,
                   phaseRunFlags, data, idx, lastCall, held, invoked, heap,
                   factoryCalls, nCalls>>
    /\ UNCHANGED <<cliVars, exitVars, criVars, clientVars, resetVars, certVars, etcdVars, markVars, joinVars>>

\* RunE, after Run has returned nil: reset cleans the directories of the
\* data object InitData returned, init prints the join command
AfterWorkflow ==
    /\ pc = "idle"
    /\ lastCall.op = "Run"
    /\ lastCall.err = NoError
    /\ IF runDataInitializer = "reset"
       THEN /\ cleaned' = cleaned \o dirsToClean(heap, held.value)
            /\ UNCHANGED joinShown
       ELSE /\ joinShown' = TRUE
            /\ UNCHANGED cleaned
    /\ pc' = "exit"
    /\ UNCHANGED <<Phases, Options, runDataInitializer, runData, phaseRunners,
                   phaseRunFlags, data, idx, lastCall, held, invoked, heap,
                   factoryCalls, nCalls>>
    /\ UNCHANGED <<cliVars, exitVars, criVars, clientVars, resetVars, certVars, etcdVars, markVars, joinVars>>

\* SpecPost: one execution of reset or of init on the fixed workflow; the
\* user may have given --skip-phases
PostSkips == UnknownNames \cup { <<"a">>, <<"b">> }

NextPost ==
    \/ /\ nCalls = 0
       /\ \E b \in Initializers \ {"none"} : SetDataInitializer(b)
    \/ /\ nCalls = 0
       /\ \E s \in UpToOne(PostSkips) : SetSkipPhases(s)
    \/ \E ok \in BOOLEAN : CommandInitData(ok)
    \/ \E ok \in BOOLEAN : CommandRun(ok)
    \/ \E cond \in CondResults, act \in ActResults : RunVisit(cond, act)
    \/ RunReturn
    \/ CommandReturnsError
    \/ AfterWorkflow

SpecPost == InitData0 /\ [][NextPost]_vars

\* a step of the command
C32_PostStep ==
    /\ (cleaned' # cleaned \/ joinShown' # joinShown)
          => /\ pc = "idle"
             /\ lastCall.op = "Run"
             /\ lastCall.err = NoError
    /\ cleaned' # cleaned
          => cleaned' = dirsToClean(heap, held.value)
    /\ (lastCall.op = "InitData" /\ lastCall.err # NoError)
          => /\ lastCall' = lastCall
             /\ pc' # "visit"
             /\ invoked' = invoked
             /\ UNCHANGED postVars
    /\ (lastCall.op = "Run" /\ lastCall.err # NoError)
          => UNCHANGED postVars

\* C32 (after the workflow): reset cleans the directories the phases have
\* added to the data object, and init prints the join command, only in a
\* step taken after Run has returned nil; after a Run that returned an
\* error nothing is cleaned and nothing is printed, and after an InitData
\* that returned an error no Run begins, no function of a phase is invoked
\* and nothing is cleaned or printed.
C32_PostOnlyAfterSuccess == [][C32_PostStep]_vars

\* reset has cleaned the directories two phases have added
C32_Witness ==
    /\ runDataInitializer = "reset"
    /\ pc = "exit"
    /\ Len(cleaned) >= 2

\* init has printed the join command
C32_WitnessJoin ==
    /\ runDataInitializer = "init"
    /\ pc = "exit"
    /\ joinShown

\* a command has returned the error of a phase and has cleaned nothing
C32_WitnessFailed ==
    /\ pc = "exit"
    /\ lastCall.op = "Run"
    /\ lastCall.err.kind = "Run"
    /\ cleaned = <<>>
    /\ ~joinShown

\* ---- the confirmation asked by reset (SpecReset)
MaxInput == 3

\* the characters the user may type
InputChars == {"y", "Y", "n", "\n", "\r"}

\* bufio.ScanLines and Scanner.Text after one Scan: the bytes before the
\* first newline, or all of them at the end of the input, without one
\* trailing carriage return; the empty string when there is nothing to read
dropCR(line) ==
    IF Len(line) > 0 /\ line[Len(line)] = "\r"
    THEN SubSeq(line, 1, Len(line) - 1)
    ELSE line

ScanText(input) ==
    IF \E i \in 1..Len(input) : input[i] = "\n"
    THEN LET nl == CHOOSE i \in 1..Len(input) :
                       /\ input[i] = "\n"
                       /\ \A j \in 1..(i - 1) : input[j] # "\n"
         IN  dropCR(SubSeq(input, 1, nl - 1))
    ELSE dropCR(input)

\* a plausible slip: an empty answer counts as yes
runPreflightDefaultYes(d, force, input, readErr, rootOk) ==
    IF ~IsObject(d) THEN [err |-> TRUE, read |-> FALSE]
    ELSE IF ~force /\ readErr THEN [err |-> TRUE, read |-> TRUE]
    ELSE IF ~force /\ ToLower(ScanText(input)) \notin {<<"y">>, <<>>}
    THEN [err |-> TRUE, read |-> TRUE]
    ELSE [err |-> ~rootOk, read |-> ~force]

\* runPreflight: [err, read]; d is the RunData, force is ForceReset(), input
\* what InputReader() delivers, readErr whether reading it fails, rootOk
\* whether RunRootCheckOnly succeeds
runPreflight(d, force, input, readErr, rootOk) ==
    IF ~IsObject(d) THEN [err |-> TRUE, read |-> FALSE]
    ELSE IF ~force /\ readErr THEN [err |-> TRUE, read |-> TRUE]
    ELSE IF ~force /\ ToLower(ScanText(input)) # <<"y">>
    THEN [err |-> TRUE, read |-> TRUE]
    ELSE [err |-> ~rootOk, read |-> ~force]

preflightName == <<"p", "r", "e", "f", "l", "i", "g", "h", "t">>

\* the workflow of reset
ResetWorkflow ==
    << Phase(preflightName, Action, FALSE, <<>>),
       Phase(<<"u", "p", "d", "a", "t", "e", "-", "c", "l", "u", "s", "t", "e", "r", "-", "s", "t", "a", "t", "u", "s">>, Action, FALSE, <<>>),
       Phase(<<"r", "e", "m", "o", "v", "e", "-", "e", "t", "c", "d", "-", "m", "e", "m", "b", "e", "r">>, Action, FALSE, <<>>),
       Phase(<<"c", "l", "e", "a", "n", "u", "p", "-", "n", "o", "d", "e">>, Action, FALSE, <<>>) >>

\* --force on the command line
SetForceReset ==
    /\ nCalls = 0
    /\ ~forceReset
    /\ forceReset' = TRUE
    /\ UNCHANGED <<stdin, inputRead>>
    /\ UNCHANGED <<runnerVars, cliVars, exitVars, criVars, clientVars, postVars, certVars, etcdVars, markVars, joinVars>>

\* the user types a character before the question is answered
UserTypes(c) ==
    /\ ~inputRead
    /\ pc # "exit"
    /\ Len(stdin) < MaxInput
    /\ stdin' = Append(stdin, c)
    /\ UNCHANGED <<forceReset, inputRead>>
    /\ UNCHANGED <<runnerVars, cliVars, exitVars, criVars, clientVars, postVars, certVars, etcdVars, markVars, joinVars>>

\* one iteration of visitAll in the Run of reset: the action of preflight is
\* runPreflight, the other actions succeed or fail
ResetVisit(readErr, rootOk, act) ==
    /\ pc = "visit"
    /\ idx <= Len(phaseRunners)
    /\ LET p == phaseRunners[idx]
           r == runPreflight(data, forceReset, stdin, readErr, rootOk)
       IN  IF p.generatedName = preflightName
           THEN /\ visitOne("true", IF r.err THEN "err" ELSE "ok")
                /\ inputRead' = (inputRead \/
                                   (r.read /\ ~ShouldSkip(phaseRunFlags, p.generatedName)))
           ELSE /\ visitOne("true", act)
                /\ UNCHANGED inputRead
    /\ UNCHANGED <<forceReset, stdin>>
    /\ UNCHANGED <<cliVars, exitVars, criVars, clientVars, postVars, certVars, etcdVars, markVars, joinVars>>

\* SpecReset: one execution of reset, with --force or without, the user
\* typing at most MaxInput characters
InitReset == NewRunner(ResetWorkflow, NoOptions)

NextReset ==
    \/ /\ nCalls = 0
       /\ SetDataInitializer("reset")
    \/ SetForceReset
    \/ \E c \in InputChars : UserTypes(c)
    \/ CommandInitData(TRUE)
    \/ CommandRun(TRUE)
    \/ \E readErr \in BOOLEAN, rootOk \in BOOLEAN, act \in ActResults :
           ResetVisit(readErr, rootOk, act)
    \/ RunReturn
    \/ CommandReturnsError
    \/ AfterWorkflow

SpecReset == InitReset /\ [][NextReset]_vars

\* the first line of the input is y or Y
AnsweredYes(input) ==
    \E c \in {"y", "Y"} :
        \/ input = <<c>>
        \/ /\ Len(input) >= 2
           /\ input[1] = c
           /\ \/ input[2] = "\n"
              \/ input[2] = "\r" /\ (Len(input) = 2 \/ input[3] = "\n")

\* the action of preflight has been invoked (has returned ret)
PreflightInvoked == \E i \in 1..Len(invoked) : invoked[i].node = 1
PreflightReturned(ret) ==
    \E i \in 1..Len(invoked) : invoked[i].node = 1 /\ invoked[i].ret = ret

\* C33 (confirmation gate): without --force the action of preflight has
\* returned nil only if the first line typed is y or Y; when it is anything
\* else, nothing included, the action has returned an error, Run has
\* returned that error and no action of a later phase has been invoked;
\* with --force the input is never read.
C33_ConfirmationGate ==
    /\ (~forceReset /\ PreflightReturned("ok")) => AnsweredYes(stdin)
    /\ (~forceReset /\ PreflightInvoked /\ ~AnsweredYes(stdin))
          => /\ PreflightReturned("err")
             /\ Len(invoked) = 1
             /\ pc \in {"idle", "exit"}
             /\ lastCall.err.kind = "Run"
             /\ cleaned = <<>>
    /\ forceReset => ~inputRead
    /\ (~forceReset /\ PreflightInvoked) => inputRead

\* the user has answered Y and a later phase has run
C33_Witness ==
    /\ ~forceReset
    /\ stdin = <<"Y", "\n">>
    /\ PreflightReturned("ok")
    /\ Len(invoked) >= 2

\* the user has answered nothing and reset has stopped
C33_WitnessRefused ==
    /\ ~forceReset
    /\ stdin = <<>>
    /\ PreflightReturned("err")
    /\ pc = "exit"

\* with --force the workflow has run to its end
C33_WitnessForce ==
    /\ forceReset
    /\ PreflightReturned("ok")
    /\ Len(invoked) = 4

\* ---- the certificates directory of the configuration (SpecCerts)
\* initData.CertificateWriteDir() and initData.CertificateDir()
CertificateWriteDir(dry, userDir) == IF dry THEN dryRunDir ELSE userDir
CertificateDir(userDir) == userDir

\* what a function of a phase leaves: [err, used, CertificatesDir]; used is
\* the CertificatesDir of the configuration handed to the function that
\* creates the files, "" when none is called
Returned(err, cfgDir) == [err |-> err, used |-> "", CertificatesDir |-> cfgDir]

\* a plausible slip: the directory is not put back
RedirectedNoRestore(dry, userDir, createOk) ==
    [err |-> ~createOk,
     used |-> CertificateWriteDir(dry, userDir),
     CertificatesDir |-> CertificateWriteDir(dry, userDir)]

\* "cfg.CertificatesDir = data.CertificateWriteDir()", the deferred
\* "cfg.CertificatesDir = data.CertificateDir()" and the creation between
\* them
Redirected(dry, userDir, createOk) ==
    [err |-> ~createOk,
     used |-> CertificateWriteDir(dry, userDir),
     CertificatesDir |-> CertificateDir(userDir)]

\* runCAPhase(ca): valid is whether the RunData is an InitData, skipEtcd
\* whether etcd is external and ca is the etcd CA, certOnDisk whether the
\* certificate of the CA loads from CertificateDir()
runCAPhase(cfgDir, valid, dry, userDir, skipEtcd, certOnDisk, createOk) ==
    IF ~valid THEN Returned(TRUE, cfgDir)
    ELSE IF skipEtcd THEN Returned(FALSE, cfgDir)
    ELSE IF certOnDisk THEN Returned(FALSE, cfgDir)
    ELSE Redirected(dry, userDir, createOk)

\* runCertPhase(cert, caCert): certOnDisk is whether the certificate chain
\* loads from CertificateDir(), chainOk whether its CA loads and verifies it
runCertPhase(cfgDir, valid, dry, userDir, skipEtcd, certOnDisk, chainOk, createOk) ==
    IF ~valid THEN Returned(TRUE, cfgDir)
    ELSE IF skipEtcd THEN Returned(FALSE, cfgDir)
    ELSE IF certOnDisk THEN Returned(~chainOk, cfgDir)
    ELSE Redirected(dry, userDir, createOk)

\* runKubeConfigFile(name): externalCA is data.ExternalCA(), copyOk whether
\* the file of the user is copied to the dry-run directory
runKubeConfigFile(cfgDir, valid, dry, userDir, externalCA, copyOk, createOk) ==
    IF ~valid THEN Returned(TRUE, cfgDir)
    ELSE IF externalCA THEN Returned(dry /\ ~copyOk, cfgDir)
    ELSE Redirected(dry, userDir, createOk)

CertFunctions == {"runCAPhase", "runCertPhase", "runKubeConfigFile"}

\* --cert-dir on the command line, before the data is built
SetCertificatesDir(dir) ==
    /\ certCalls = <<>>
    /\ certificatesDir # dir
    /\ cfgCertificatesDir' = dir
    /\ certificatesDir' = dir
    /\ UNCHANGED certCalls
    /\ UNCHANGED <<runnerVars, cliVars, exitVars, criVars, clientVars, postVars, resetVars, etcdVars, markVars, joinVars>>

\* the action of one certs or kubeconfig phase runs and returns
CertPhase(fn, valid, a, b, c, createOk) ==
    /\ Len(certCalls) < MaxCalls
    /\ LET r == CASE fn = "runCAPhase" ->
                       runCAPhase(cfgCertificatesDir, valid, dryRun, certificatesDir,
                                  a, b, createOk)
                  [] fn = "runCertPhase" ->
                       runCertPhase(cfgCertificatesDir, valid, dryRun, certificatesDir,
                                    a, b, c, createOk)
                  [] OTHER ->
                       runKubeConfigFile(cfgCertificatesDir, valid, dryRun,
                                         certificatesDir, a, b, createOk)
       IN  /\ cfgCertificatesDir' = r.CertificatesDir
           /\ certCalls' = Append(certCalls, [fn |-> fn, err |-> r.err, used |-> r.used,
                                              seen |-> cfgCertificatesDir])
    /\ UNCHANGED certificatesDir
    /\ UNCHANGED <<runnerVars, cliVars, exitVars, criVars, clientVars, postVars, resetVars, etcdVars, markVars, joinVars>>

\* SpecCerts: init with --dry-run or without, with --cert-dir or without,
\* runs at most MaxCalls actions of certs and kubeconfig phases
InitCerts == NewRunner(<<>>, NoOptions)

NextCerts ==
    \/ /\ certCalls = <<>>
       /\ SetDryRun
    \/ SetCertificatesDir(CustomCertificatesDir)
    \/ \E fn \in CertFunctions, valid, a, b, c, createOk \in BOOLEAN :
           CertPhase(fn, valid, a, b, c, createOk)

SpecCerts == InitCerts /\ [][NextCerts]_vars

\* C34 (the certificates directory is put back): whenever an action of a
\* certs or kubeconfig phase has returned, with or without an error, in
\* dry-run mode or not, CertificatesDir of the shared configuration is the
\* directory the user asked for, and so is the CertificatesDir every such
\* action found when it started.
C34_CertificatesDirRestored ==
    /\ cfgCertificatesDir = certificatesDir
    /\ \A i \in 1..Len(certCalls) : certCalls[i].seen = certificatesDir

\* in dry-run mode a file has been created in the dry-run directory, a
\* creation has failed, and the directory is the one of the user
C34_Witness ==
    /\ dryRun
    /\ certificatesDir = CustomCertificatesDir
    /\ \E i \in 1..Len(certCalls) : certCalls[i].used = dryRunDir /\ ~certCalls[i].err
    /\ \E i \in 1..Len(certCalls) : certCalls[i].used = dryRunDir /\ certCalls[i].err
    /\ cfgCertificatesDir = CustomCertificatesDir

\* ---- the etcd client: AddMember (SpecAddMember)
MaxEtcdCalls == 2

\* etcdBackoff.Steps
etcdBackoffSteps == 18

\* addresses are sequences of the parts of their text
FirstEndpoint == <<"https://", "10.0.0.1", ":", "2379">>

\* peer addresses a caller may pass: two well-formed ones, one without a
\* scheme and a port only, a bare host
PeerAddrs == { <<"https://", "10.0.0.2", ":", "2380">>,
               <<"https://", "10.0.0.3", ":", "2380">>,
               <<":", "2380">>,
               <<"10.0.0.2">> }

\* url.Parse and URL.Hostname: [err, Hostname]; an address that starts with
\* a colon has no scheme and does not parse, nor does one whose first path
\* segment holds a colon; without "//" there is no host
urlParse(addr) ==
    IF addr[1] = ":" THEN [err |-> TRUE, Hostname |-> ""]
    ELSE IF addr[1] = "https://" THEN [err |-> FALSE, Hostname |-> addr[2]]
    ELSE IF Len(addr) > 1 /\ addr[2] = ":" THEN [err |-> TRUE, Hostname |-> ""]
    ELSE [err |-> FALSE, Hostname |-> ""]

\* GetClientURLByIP
GetClientURLByIP(ip) == <<"https://", ip, ":", "2379">>

\* errors of the etcd client: the kind and the attempt that met it
NoEtcdError == [kind |-> "nil", attempt |-> 0]
EtcdError(kind, attempt) == [kind |-> kind, attempt |-> attempt]

\* wait.ExponentialBackoff(etcdBackoff, f): [attempts, timeout]; firstOk is
\* the first attempt in which f returns true, 0 when it never does
ExponentialBackoff(steps, firstOk) ==
    IF firstOk \in 1..steps
    THEN [attempts |-> firstOk, timeout |-> FALSE]
    ELSE [attempts |-> steps, timeout |-> TRUE]

\* a plausible slip: the endpoint is appended before the member is added
addMemberEager(endpoints, peerAddrs, firstOk, kind) ==
    LET parsed == urlParse(peerAddrs)
        b == ExponentialBackoff(etcdBackoffSteps, firstOk)
        failed == IF b.timeout THEN b.attempts ELSE b.attempts - 1
        sent == (IF kind = "add" THEN failed ELSE 0) + (IF b.timeout THEN 0 ELSE 1)
        grown == Append(endpoints, GetClientURLByIP(parsed.Hostname))
    IN  IF parsed.err
        THEN [Endpoints |-> endpoints, sent |-> 0, err |-> EtcdError("parse", 0)]
        ELSE IF b.timeout
        THEN [Endpoints |-> grown, sent |-> sent, err |-> EtcdError(kind, b.attempts)]
        ELSE [Endpoints |-> grown, sent |-> sent, err |-> NoEtcdError]

\* Client.AddMember: [Endpoints, sent, err]; kind is what makes an attempt
\* fail, "dial" (clientv3.New fails, no request is sent) or "add" (MemberAdd
\* fails); sent is the number of MemberAdd requests
addMember(endpoints, peerAddrs, firstOk, kind) ==
    LET parsed == urlParse(peerAddrs)
        b == ExponentialBackoff(etcdBackoffSteps, firstOk)
        failed == IF b.timeout THEN b.attempts ELSE b.attempts - 1
        sent == (IF kind = "add" THEN failed ELSE 0) + (IF b.timeout THEN 0 ELSE 1)
    IN  IF parsed.err
        THEN [Endpoints |-> endpoints, sent |-> 0, err |-> EtcdError("parse", 0)]
        ELSE IF b.timeout
        THEN [Endpoints |-> endpoints, sent |-> sent, err |-> EtcdError(kind, b.attempts)]
        ELSE [Endpoints |-> Append(endpoints, GetClientURLByIP(parsed.Hostname)),
              sent |-> sent, err |-> NoEtcdError]

\* the client is made with the endpoint of the first member
NewEtcdClient ==
    /\ Endpoints = <<>>
    /\ etcdCalls = <<>>
    /\ Endpoints' = <<FirstEndpoint>>
    /\ UNCHANGED <<memberAdds, etcdCalls>>
    /\ UNCHANGED <<runnerVars, cliVars, exitVars, criVars, clientVars, postVars, resetVars, certVars, markVars, joinVars>>

AddMember(peerAddrs, firstOk, kind) ==
    /\ Endpoints # <<>>
    /\ Len(etcdCalls) < MaxEtcdCalls
    /\ LET r == addMember(Endpoints, peerAddrs, firstOk, kind)
       IN  /\ Endpoints' = r.Endpoints
           /\ memberAdds' = memberAdds + r.sent
           /\ etcdCalls' = Append(etcdCalls,
                  [fn |-> "AddMember", peerAddrs |-> peerAddrs, err |-> r.err,
                   before |-> Endpoints, sentBefore |-> memberAdds,
                   after |-> r.Endpoints, sentAfter |-> memberAdds + r.sent])
    /\ UNCHANGED <<runnerVars, cliVars, exitVars, criVars, clientVars, postVars, resetVars, certVars, markVars, joinVars>>

FailureKinds == {"dial", "add"}

InitEtcd == NewRunner(<<>>, NoOptions)

NextAddMember ==
    \/ NewEtcdClient
    \/ \E peerAddrs \in PeerAddrs, firstOk \in 0..etcdBackoffSteps, kind \in FailureKinds :
           AddMember(peerAddrs, firstOk, kind)

SpecAddMember == InitEtcd /\ [][NextAddMember]_vars

\* the address has a scheme, or is a bare host
WellFormed(addr) == addr[1] = "https://" \/ Len(addr) = 1

\* what one call of AddMember has done
C35_Call(c) ==
    /\ ~WellFormed(c.peerAddrs)
          => /\ c.err.kind = "parse"
             /\ c.sentAfter = c.sentBefore
             /\ c.after = c.before
    /\ c.err # NoEtcdError
          => /\ c.after = c.before
             /\ c.err.kind \in {"parse"} \cup FailureKinds
             /\ c.err.kind # "parse" => c.err.attempt = etcdBackoffSteps
    /\ c.err = NoEtcdError
          => /\ Len(c.after) = Len(c.before) + 1
             /\ SubSeq(c.after, 1, Len(c.before)) = c.before
             /\ c.after[Len(c.after)][1] = "https://"
             /\ c.after[Len(c.after)][4] = "2379"
             /\ c.peerAddrs[1] = "https://"
                   => c.after[Len(c.after)][2] = c.peerAddrs[2]
             /\ c.sentAfter > c.sentBefore

\* C35 (AddMember and the endpoints): a call whose peer address does not
\* parse sends no MemberAdd request and leaves Endpoints as it was; a call
\* that returns an error leaves Endpoints as it was, and when all attempts
\* failed the error is the one of the last attempt; a call that returns nil
\* has appended one endpoint, the client URL of the host of the peer
\* address, after the endpoints it had, which are kept in their order; and
\* Endpoints is what the last call left.
C35_EndpointsOnSuccessOnly ==
    /\ \A i \in 1..Len(etcdCalls) :
           etcdCalls[i].fn = "AddMember" => C35_Call(etcdCalls[i])
    /\ (etcdCalls # <<>> /\ etcdCalls[Len(etcdCalls)].fn = "AddMember")
          => Endpoints = etcdCalls[Len(etcdCalls)].after

\* one call has failed in all its attempts, the next one has added a member
C35_Witness ==
    /\ Len(etcdCalls) = 2
    /\ etcdCalls[1].err = EtcdError("add", etcdBackoffSteps)
    /\ etcdCalls[2].err = NoEtcdError
    /\ Len(Endpoints) = 2
    /\ memberAdds > etcdBackoffSteps

\* a call was given an address that does not parse
C35_WitnessParse ==
    /\ Len(etcdCalls) >= 1
    /\ etcdCalls[1].err.kind = "parse"
    /\ memberAdds = 0

\* ---- the etcd client: WaitForClusterAvailable (SpecWait)
MaxRetries == 2

\* getClusterStatus: the endpoints are asked in their order, each with the
\* backoff; failing is the set of the positions of the endpoints that do not
\* answer in any attempt of the backoff.  [err, asked]: asked is the number
\* of endpoints asked
getClusterStatus(n, failing) ==
    IF \E k \in 1..n : k \in failing
    THEN [err |-> TRUE,
          asked |-> CHOOSE k \in 1..n : k \in failing /\ \A j \in 1..(k - 1) : j \notin failing]
    ELSE [err |-> FALSE, asked |-> n]

\* the loop of WaitForClusterAvailable from attempt i on (i counts from 0);
\* outcomes[i + 1] is the failing set of attempt i
RECURSIVE waitLoop(_, _, _, _)
waitLoop(i, retries, n, outcomes) ==
    IF i < retries
    THEN IF getClusterStatus(n, outcomes[i + 1]).err
         THEN waitLoop(i + 1, retries, n, outcomes)
         ELSE [ret |-> TRUE, err |-> FALSE, attempts |-> i + 1]
    ELSE [ret |-> FALSE, err |-> TRUE, attempts |-> i]

\* a plausible slip: the loop does not stop at a successful attempt and the
\* last attempt decides
waitForClusterAvailableLast(retries, n, outcomes) ==
    IF retries <= 0 THEN [ret |-> FALSE, err |-> TRUE, attempts |-> 0]
    ELSE IF getClusterStatus(n, outcomes[retries]).err
    THEN [ret |-> FALSE, err |-> TRUE, attempts |-> retries]
    ELSE [ret |-> TRUE, err |-> FALSE, attempts |-> retries]

\* Client.WaitForClusterAvailable(retries, retryInterval): [ret, err,
\* attempts]
waitForClusterAvailable(retries, n, outcomes) == waitLoop(0, retries, n, outcomes)

WaitForClusterAvailable(retries, outcomes) ==
    /\ Endpoints # <<>>
    /\ Len(etcdCalls) < MaxEtcdCalls
    /\ LET r == waitForClusterAvailable(retries, Len(Endpoints), outcomes)
       IN  etcdCalls' = Append(etcdCalls,
               [fn |-> "WaitForClusterAvailable", retries |-> retries,
                n |-> Len(Endpoints), outcomes |-> outcomes,
                ret |-> r.ret, err |-> r.err, attempts |-> r.attempts])
    /\ UNCHANGED <<Endpoints, memberAdds>>
    /\ UNCHANGED <<runnerVars, cliVars, exitVars, criVars, clientVars, postVars, resetVars, certVars, markVars, joinVars>>

\* SpecWait: a client whose cluster has one or two members is asked to wait
\* for the cluster, with retries from -1 to MaxRetries
NextWait ==
    \/ NewEtcdClient
    \/ /\ Len(Endpoints) < 2
       /\ AddMember(<<"https://", "10.0.0.2", ":", "2380">>, 1, "add")
    \/ \E retries \in -1..MaxRetries,
          outcomes \in [1..MaxRetries -> SUBSET (1..Len(Endpoints))] :
           WaitForClusterAvailable(retries, outcomes)

SpecWait == InitEtcd /\ [][NextWait]_vars

\* every endpoint reports its status in attempt j of the call c
AllReport(c, j) == \A k \in 1..c.n : k \notin c.outcomes[j]

\* what one call of WaitForClusterAvailable has done
C36_Call(c) ==
    /\ c.attempts >= 0
    /\ c.attempts <= (IF c.retries > 0 THEN c.retries ELSE 0)
    /\ \A j \in 1..(c.attempts - 1) : ~AllReport(c, j)
    /\ c.ret => /\ ~c.err
                /\ c.attempts >= 1
                /\ AllReport(c, c.attempts)
    /\ ~c.ret => /\ c.err
                 /\ c.attempts = (IF c.retries > 0 THEN c.retries ELSE 0)
                 /\ \A j \in 1..c.attempts : ~AllReport(c, j)
    /\ (\E j \in 1..c.retries : AllReport(c, j)) => c.ret

\* C36 (WaitForClusterAvailable): a call makes at most retries attempts,
\* none when retries is not positive; it returns (true, nil) at the first
\* attempt in which every endpoint reports its status, having made no
\* attempt after it; it returns (false, error) after exactly retries
\* attempts that all failed; it never returns true when its last attempt
\* failed.
C36_WaitAttempts ==
    \A i \in 1..Len(etcdCalls) :
        etcdCalls[i].fn = "WaitForClusterAvailable" => C36_Call(etcdCalls[i])

\* with two endpoints, a call has succeeded at its second attempt, the
\* second endpoint not reporting in the first
C36_Witness ==
    /\ Len(Endpoints) = 2
    /\ \E i \in 1..Len(etcdCalls) :
           /\ etcdCalls[i].fn = "WaitForClusterAvailable"
           /\ etcdCalls[i].ret
           /\ etcdCalls[i].attempts = 2
           /\ etcdCalls[i].outcomes[1] = {2}

\* a call has used up its retries
C36_WitnessTimeout ==
    \E i \in 1..Len(etcdCalls) :
        /\ etcdCalls[i].fn = "WaitForClusterAvailable"
        /\ ~etcdCalls[i].ret
        /\ etcdCalls[i].attempts = MaxRetries

\* a call with retries = 0 has returned without an attempt
C36_WitnessNone ==
    \E i \in 1..Len(etcdCalls) :
        /\ etcdCalls[i].fn = "WaitForClusterAvailable"
        /\ etcdCalls[i].retries <= 0
        /\ etcdCalls[i].attempts = 0
        /\ etcdCalls[i].err

\* ---- the labels and taints of a control-plane node (SpecMark)
MaxTaints == 2

\* the labels markControlPlaneNode adds
LabelNodeRoleOldControlPlane == "node-role.kubernetes.io/master"
LabelNodeRoleControlPlane == "node-role.kubernetes.io/control-plane"
LabelExcludeFromExternalLB == "node.kubernetes.io/exclude-from-external-load-balancers"
labelsToAdd ==
    <<LabelNodeRoleOldControlPlane, LabelNodeRoleControlPlane, LabelExcludeFromExternalLB>>

\* the label of the host name, which the kubelet gives to every node
LabelHostname == "kubernetes.io/hostname"

\* v1.Taint values; TimeAdded is a pointer (0 is nil), compared by "==" as
\* a pointer
Taint(key, value, effect, timeAdded) ==
    [Key |-> key, Value |-> value, Effect |-> effect, TimeAdded |-> timeAdded]

TaintValues ==
    { Taint("node-role.kubernetes.io/control-plane", "", "NoSchedule", 0),
      Taint("node-role.kubernetes.io/master", "", "NoSchedule", 0),
      Taint("dedicated", "infra", "NoExecute", 0),
      Taint("node.kubernetes.io/not-ready", "", "NoExecute", 1) }

\* the labels a registered node may have before it is marked
NodeLabels ==
    { MapPut(EmptyMap, LabelHostname, "n1"),
      MapPut(MapPut(EmptyMap, LabelHostname, "n1"), LabelNodeRoleControlPlane, "true") }

\* the taints of a node in the API: no two with the same key and effect
NodeTaints ==
    { q \in SeqsUpTo(TaintValues, MaxTaints) :
          \A i, j \in 1..Len(q) :
              (q[i].Key = q[j].Key /\ q[i].Effect = q[j].Effect) => i = j }

taintExists(taint, taints) == \E i \in 1..Len(taints) : taints[i] = taint

\* the first loop of markControlPlaneNode from the i-th label on
RECURSIVE addLabels(_, _)
addLabels(labels, i) ==
    IF i > Len(labelsToAdd) THEN labels
    ELSE addLabels(MapPut(labels, labelsToAdd[i], ""), i + 1)

\* the second loop of markControlPlaneNode from the i-th taint of the node on
RECURSIVE mergeTaints(_, _, _)
mergeTaints(nodeTaints, i, taints) ==
    IF i > Len(nodeTaints) THEN taints
    ELSE IF ~taintExists(nodeTaints[i], taints)
    THEN mergeTaints(nodeTaints, i + 1, Append(taints, nodeTaints[i]))
    ELSE mergeTaints(nodeTaints, i + 1, taints)

\* a plausible slip: the taints of the node are appended without a look at
\* the ones asked for
markControlPlaneNodeAppendAll(n, taints) ==
    [Labels |-> addLabels(n.Labels, 1), Taints |-> taints \o n.Taints]

\* markControlPlaneNode(n, taints): the node it leaves
markControlPlaneNode(n, taints) ==
    [Labels |-> addLabels(n.Labels, 1), Taints |-> mergeTaints(n.Taints, 1, taints)]

\* the kubelet registers the node
RegisterNode(labels, taints) ==
    /\ ~nodeExists
    /\ nodeExists' = TRUE
    /\ node' = [Labels |-> labels, Taints |-> taints]
    /\ UNCHANGED <<requested, marked>>
    /\ UNCHANGED <<runnerVars, cliVars, exitVars, criVars, clientVars, postVars, resetVars, certVars, etcdVars, joinVars>>

\* the taints of the configuration
SetTaints(taints) ==
    /\ marked = <<>>
    /\ requested = <<>>
    /\ taints # <<>>
    /\ requested' = taints
    /\ UNCHANGED <<nodeExists, node, marked>>
    /\ UNCHANGED <<runnerVars, cliVars, exitVars, criVars, clientVars, postVars, resetVars, certVars, etcdVars, joinVars>>

\* MarkControlPlane: PatchNode applies markControlPlaneNode to the node
MarkControlPlane ==
    /\ nodeExists
    /\ Len(marked) < MaxCalls
    /\ node' = markControlPlaneNode(node, requested)
    /\ marked' = Append(marked, [before |-> node, taints |-> requested,
                                 after |-> markControlPlaneNode(node, requested)])
    /\ UNCHANGED <<nodeExists, requested>>
    /\ UNCHANGED <<runnerVars, cliVars, exitVars, criVars, clientVars, postVars, resetVars, certVars, etcdVars, joinVars>>

InitMark == NewRunner(<<>>, NoOptions)

NextMark ==
    \/ \E labels \in NodeLabels, taints \in NodeTaints : RegisterNode(labels, taints)
    \/ \E taints \in SeqsUpTo(TaintValues, MaxTaints) : SetTaints(taints)
    \/ MarkControlPlane

SpecMark == InitMark /\ [][NextMark]_vars

\* the taints of s that are not among those of r, in the order of s
NotAmong(s, r) == SelectSeq(s, LAMBDA t : \A i \in 1..Len(r) : r[i] # t)

\* the number of times t occurs in s
Occurrences(s, t) == Cardinality({i \in 1..Len(s) : s[i] = t})

\* what one application has done
C37_Application(m) ==
    /\ \A i \in 1..Len(labelsToAdd) : labelsToAdd[i] \in DOMAIN m.after.Labels
    /\ \A l \in DOMAIN m.before.Labels : l \in DOMAIN m.after.Labels
    /\ m.after.Taints = m.taints \o NotAmong(m.before.Taints, m.taints)
    /\ \A i \in 1..Len(m.before.Taints) :
           /\ taintExists(m.before.Taints[i], m.after.Taints)
           /\ Occurrences(m.after.Taints, m.before.Taints[i])
                 <= 1 + Occurrences(m.taints, m.before.Taints[i])

\* C37 (markControlPlaneNode): after an application the node has every
\* control-plane label, and its taints are the taints asked for followed by
\* the taints it had that are not among them, in their order: none of the
\* taints it had is lost and none is there twice; a further application
\* with the same taints leaves the labels and the taints as they are.
C37_MarkedOnce ==
    /\ \A i \in 1..Len(marked) : C37_Application(marked[i])
    /\ \A i \in 2..Len(marked) :
           (marked[i].taints = marked[i - 1].taints /\ marked[i].before = marked[i - 1].after)
              => marked[i].after = marked[i].before
    /\ marked # <<>> => node = marked[Len(marked)].after

\* a node with two taints, one of them asked for again, has been marked
\* twice
C37_Witness ==
    /\ Len(marked) >= 2
    /\ Len(marked[1].before.Taints) = 2
    /\ Len(requested) = 2
    /\ taintExists(marked[1].before.Taints[2], requested)
    /\ ~taintExists(marked[1].before.Taints[1], requested)
    /\ Len(node.Taints) = 3
    /\ marked[1].before.Labels # node.Labels

\* ---- the kubelet-start phase of join (SpecJoin)
MaxJoinCalls == 2

\* the step of runKubeletStartJoinPhase that fails, if one does
JoinFailures ==
    {"none", "getKubeletStartJoinData", "WriteToDisk", "WriteCert",
     "ClientSetFromFile", "Get", "WriteConfigToDisk",
     "WriteKubeletDynamicEnvFile", "WaitForKubeletAndFunc",
     "ClientSetFromFile(kubelet.conf)", "AnnotateCRISocket"}

\* the node of the joining node's name in the cluster: none, one that is
\* not Ready, one with the condition Ready=True
ClusterNodes == {"none", "notReady", "ready"}

\* the execution of the phase so far: the calls it has made in their order,
\* the file, the kubelet, whether it has returned and with which error
Started(file, running) ==
    [trace |-> <<>>, file |-> file, running |-> running,
     returned |-> FALSE, err |-> "nil"]

\* a call that returns an error makes the phase return it
Call(s, name, failAt) ==
    IF s.returned THEN s
    ELSE [s EXCEPT !.trace = Append(@, name),
                   !.returned = (failAt = name),
                   !.err = IF failAt = name THEN name ELSE "nil"]

\* kubeconfigutil.WriteToDisk(bootstrapKubeConfigFile, tlsBootstrapCfg)
WriteBootstrap(s, failAt) ==
    IF s.returned THEN s
    ELSE LET c == Call(s, "WriteToDisk", failAt)
         IN  [c EXCEPT !.file = IF c.returned THEN s.file ELSE TRUE]

\* the CA certificate is written when it is not on disk
WriteCA(s, caExists, failAt) ==
    IF s.returned \/ caExists THEN s ELSE Call(s, "WriteCert", failAt)

\* the loop over node.Status.Conditions
CheckReady(s, existing) ==
    IF s.returned THEN s
    ELSE IF existing = "ready"
    THEN [s EXCEPT !.returned = TRUE, !.err = "NodeReady"]
    ELSE s

\* kubeletphase.TryStopKubelet() and TryStartKubelet()
TryStopKubelet(s) ==
    IF s.returned THEN s
    ELSE [s EXCEPT !.trace = Append(@, "TryStopKubelet"), !.running = FALSE]

TryStartKubelet(s) ==
    IF s.returned THEN s
    ELSE [s EXCEPT !.trace = Append(@, "TryStartKubelet"), !.running = TRUE]

\* the deferred os.Remove(bootstrapKubeConfigFile)
Remove(s) ==
    [s EXCEPT !.trace = Append(@, "Remove"), !.file = FALSE, !.returned = TRUE]

\* a plausible slip: the kubelet is stopped before the cluster is asked for
\* a node of the same name
runKubeletStartJoinPhaseStopFirst(file, running, existing, caExists, failAt) ==
    IF failAt = "getKubeletStartJoinData"
    THEN [Started(file, running) EXCEPT !.returned = TRUE, !.err = failAt]
    ELSE
      LET s1  == WriteBootstrap(Started(file, running), failAt)
          s2  == WriteCA(s1, caExists, failAt)
          s3  == Call(s2, "ClientSetFromFile", failAt)
          s4  == TryStopKubelet(s3)
          s5  == Call(s4, "Get", failAt)
          s6  == CheckReady(s5, existing)
          s7  == Call(s6, "WriteConfigToDisk", failAt)
          s8  == Call(s7, "WriteKubeletDynamicEnvFile", failAt)
          s9  == TryStartKubelet(s8)
          s10 == Call(s9, "WaitForKubeletAndFunc", failAt)
          s11 == Call(s10, "ClientSetFromFile(kubelet.conf)", failAt)
          s12 == Call(s11, "AnnotateCRISocket", failAt)
      IN  Remove(s12)

\* runKubeletStartJoinPhase: what it has done when it returns
runKubeletStartJoinPhase(file, running, existing, caExists, failAt) ==
    IF failAt = "getKubeletStartJoinData"
    THEN [Started(file, running) EXCEPT !.returned = TRUE, !.err = failAt]
    ELSE
      LET s1  == WriteBootstrap(Started(file, running), failAt)
          s2  == WriteCA(s1, caExists, failAt)
          s3  == Call(s2, "ClientSetFromFile", failAt)
          s4  == Call(s3, "Get", failAt)
          s5  == CheckReady(s4, existing)
          s6  == TryStopKubelet(s5)
          s7  == Call(s6, "WriteConfigToDisk", failAt)
          s8  == Call(s7, "WriteKubeletDynamicEnvFile", failAt)
          s9  == TryStartKubelet(s8)
          s10 == Call(s9, "WaitForKubeletAndFunc", failAt)
          s11 == Call(s10, "ClientSetFromFile(kubelet.conf)", failAt)
          s12 == Call(s11, "AnnotateCRISocket", failAt)
      IN  Remove(s12)

\* the action of the phase kubelet-start runs and returns
KubeletStartJoin(caExists, failAt) ==
    /\ Len(joinCalls) < MaxJoinCalls
    /\ LET r == runKubeletStartJoinPhase(bootstrapConf, kubeletRunning, clusterNode,
                                         caExists, failAt)
       IN  /\ bootstrapConf' = r.file
           /\ kubeletRunning' = r.running
           /\ joinCalls' = Append(joinCalls,
                  [existing |-> clusterNode, failAt |-> failAt,
                   fileBefore |-> bootstrapConf, runningBefore |-> kubeletRunning,
                   trace |-> r.trace, err |-> r.err,
                   file |-> r.file, running |-> r.running])
    /\ UNCHANGED clusterNode
    /\ UNCHANGED <<runnerVars, cliVars, exitVars, criVars, clientVars, postVars, resetVars, certVars, etcdVars, markVars>>

\* the cluster: a node of that name registers, becomes Ready or not, is
\* deleted
ClusterChanges(n) ==
    /\ Len(joinCalls) < MaxJoinCalls
    /\ clusterNode # n
    /\ clusterNode' = n
    /\ UNCHANGED <<bootstrapConf, kubeletRunning, joinCalls>>
    /\ UNCHANGED <<runnerVars, cliVars, exitVars, criVars, clientVars, postVars, resetVars, certVars, etcdVars, markVars>>

\* the host before the phase: the kubelet service is started by the package
\* or by an earlier join; an interrupted join has left the bootstrap file
HostChanges ==
    /\ joinCalls = <<>>
    /\ \/ ~kubeletRunning /\ kubeletRunning' = TRUE /\ UNCHANGED bootstrapConf
       \/ ~bootstrapConf /\ bootstrapConf' = TRUE /\ UNCHANGED kubeletRunning
    /\ UNCHANGED <<clusterNode, joinCalls>>
    /\ UNCHANGED <<runnerVars, cliVars, exitVars, criVars, clientVars, postVars, resetVars, certVars, etcdVars, markVars>>

InitJoin == NewRunner(<<>>, NoOptions)

NextJoin ==
    \/ \E n \in ClusterNodes : ClusterChanges(n)
    \/ HostChanges
    \/ \E caExists \in BOOLEAN, failAt \in JoinFailures : KubeletStartJoin(caExists, failAt)

SpecJoin == InitJoin /\ [][NextJoin]_vars

\* the call named e is in the trace t
InTrace(t, e) == \E i \in 1..Len(t) : t[i] = e

\* what touches the kubelet or its files
KubeletSteps ==
    {"TryStopKubelet", "WriteConfigToDisk", "WriteKubeletDynamicEnvFile", "TryStartKubelet"}

\* what one execution of the phase has done
C38_Execution(c) ==
    /\ c.existing = "ready"
          => /\ c.err # "nil"
             /\ \A e \in KubeletSteps : ~InTrace(c.trace, e)
             /\ c.running = c.runningBefore
    /\ c.failAt # "getKubeletStartJoinData"
          => /\ c.trace # <<>>
             /\ c.trace[Len(c.trace)] = "Remove"
             /\ ~c.file
    /\ c.failAt = "getKubeletStartJoinData"
          => /\ c.trace = <<>>
             /\ c.file = c.fileBefore
             /\ c.err # "nil"
    /\ \A i, j \in 1..Len(c.trace) :
           (c.trace[i] = "Get" /\ c.trace[j] \in KubeletSteps) => i < j

\* C38 (kubelet-start of join): an execution that finds in the cluster a
\* node of its name with Ready=True returns an error without having stopped
\* the kubelet, written its configuration or its env file, or started it;
\* in every execution the cluster is asked before the kubelet is touched;
\* and every execution that has loaded the bootstrap data ends, with or
\* without an error, by removing bootstrap-kubelet.conf, which is then not
\* on disk.
C38_ReadyNodeStopsJoin ==
    /\ \A i \in 1..Len(joinCalls) : C38_Execution(joinCalls[i])
    /\ joinCalls # <<>>
          => /\ bootstrapConf = joinCalls[Len(joinCalls)].file
             /\ kubeletRunning = joinCalls[Len(joinCalls)].running

\* a join was refused because of a Ready node while the kubelet ran, and
\* after the node was deleted the next one went through
C38_Witness ==
    /\ Len(joinCalls) = 2
    /\ joinCalls[1].existing = "ready"
    /\ joinCalls[1].err = "NodeReady"
    /\ joinCalls[1].runningBefore
    /\ joinCalls[1].trace[Len(joinCalls[1].trace)] = "Remove"
    /\ joinCalls[2].err = "nil"
    /\ InTrace(joinCalls[2].trace, "TryStartKubelet")
    /\ ~bootstrapConf

\* a join failed while the kubelet was stopped and removed the file
C38_WitnessFailed ==
    /\ Len(joinCalls) >= 1
    /\ joinCalls[1].err = "WriteKubeletDynamicEnvFile"
    /\ joinCalls[1].runningBefore
    /\ ~kubeletRunning
    /\ ~bootstrapConf

\* ---- the exit code (SpecExit)
\* the errors Run makes itself or wraps, and the one it passes on
MadeByRun(err) == err.kind \in {"Run", "RunIf", "RunAllSiblings", "UnknownPhase"}

\* the exit code the error calls for, cause being the dynamic type of the
\* error of the function that failed
C39_Code(err, cause) ==
    IF MadeByRun(err) THEN DefaultErrorExitCode
    ELSE IF cause \in {"preflightError", "preflightAggregate"} THEN PreFlightExitCode
    ELSE IF cause = "Aggregate" THEN ValidationExitCode
    ELSE DefaultErrorExitCode

\* C39 (exit code): for a non-nil error CheckErr calls the handler exactly
\* once, with code 2 when the dynamic type of the error has the method
\* Preflight(), else with code 3 when it is an Aggregate, else with code 1;
\* only the outermost error counts: the error of a phase function, wrapped
\* by Run, gets code 1 whatever its own type; for nil the handler is not
\* called.
C39_ExitCode ==
    /\ Len(checked) <= 1
    /\ \A i \in 1..Len(checked) :
           IF checked[i].err = NoError THEN exits = <<>>
           ELSE /\ Len(exits) = 1
                /\ exits[1].code = C39_Code(checked[i].err, checked[i].cause)
                /\ exits[1].code \in {DefaultErrorExitCode, PreFlightExitCode,
                                      ValidationExitCode}

\* the action of a phase has returned a preflight error, Run has wrapped it
\* and the process ends with code 1
C39_Witness ==
    /\ Len(checked) = 1
    /\ checked[1].err.kind = "Run"
    /\ checked[1].cause = "preflightError"
    /\ Len(exits) = 1
    /\ exits[1].code = DefaultErrorExitCode

\* the data initializer has returned an error that is a preflight error and
\* an Aggregate, and the process ends with code 2
C39_WitnessPreflight ==
    /\ Len(checked) = 1
    /\ checked[1].err.kind = "InitData"
    /\ checked[1].cause = "preflightAggregate"
    /\ Len(exits) = 1
    /\ exits[1].code = PreFlightExitCode

\* the data initializer has returned an Aggregate
C39_WitnessAggregate ==
    /\ Len(checked) = 1
    /\ checked[1].err.kind = "InitData"
    /\ checked[1].cause = "Aggregate"
    /\ Len(exits) = 1
    /\ exits[1].code = ValidationExitCode

====
